---- MODULE Spec2Model ----
(***************************************************************************)
(* Model of qubes-builderv2-github: the notification client                *)
(* (utils/notify_issues.py) and the action orchestrator (github-action.py).*)
(*                                                                         *)
(*   SpecLabels : one call of NotifyIssueCli.get_labels on any arguments.  *)
(*   SpecNotify : NotifyIssueCli.run applied repeatedly to one report      *)
(*                issue of the tracker (label state machine).              *)
(*   Spec       : one invocation of github-action.py main(): the targets,  *)
(*                their distributions, the stage groups under the alarm    *)
(*                deadline, and the notifications they emit.               *)
(***************************************************************************)
EXTENDS Integers, Sequences, FiniteSets, TLC

(***************************************************************************)
(* Bounds of the model.                                                    *)
(***************************************************************************)
\* longest sequence of notifications applied to the issue in SpecNotify
MaxNotes == 3
\* most commits in the history given to get_package_changes
MaxCommits == 3
\* most label operations of one report that the tracker refuses
MaxFailedOps == 1
\* most targets (components) of one invocation of main()
MaxTargets == 2
\* most distributions of a component
MaxDists == 2
\* largest capacity of a tail buffer, and number of records logged to it
MaxCapacity == 2
MaxRecords == 4
\* lines of an output of the BuildLog child (SpecText)
MaxLines == 2
\* largest limit of the tail of a report (SpecText)
MaxTailChars == 3

(***************************************************************************)
(* Python values.                                                          *)
(***************************************************************************)
None == "None"

\* str.startswith
startswith(s, p) == Len(s) >= Len(p) /\ SubSeq(s, 1, Len(p)) = p

\* the elements of a list, as a set
Elems(seq) == {seq[i] : i \in DOMAIN seq}

(***************************************************************************)
(* Inputs of the notification client.                                      *)
(***************************************************************************)
release_name == "r4.2"

ComponentPkg == "core-admin-linux"
TemplatePkg == "qubes-template-debian-12-4.2.0-202501010000"
IsoPkg == "iso-fc42-4.2.2"
Packages == {ComponentPkg, TemplatePkg, IsoPkg}

\* QubesDistribution values: distribution string, package set and name
HostDist == [distribution |-> "host-fc42", package_set |-> "host", name |-> "fc42"]
VmDist == [distribution |-> "vm-bookworm", package_set |-> "vm", name |-> "bookworm"]
Distributions == {HostDist, VmDist}

Commands == {"build", "upload"}
Statuses == {"failed", "building", "built", "uploaded"}

\* repo_type choices of the upload sub-command, "iso" (build-iso --final) and
\* "stable" (the orchestrator passes its repository_publish unchecked)
Channels ==
    {"current", "current-testing", "security-testing", "unstable",
     "templates-itl", "templates-itl-testing", "templates-community",
     "templates-community-testing", "iso-testing", "iso", "stable"}

(***************************************************************************)
(* NotifyIssueCli.get_labels: the add list and the delete list.            *)
(***************************************************************************)
\* a prefix that includes the distribution for every kind of package
prefix_label_with_dist(dist_label, package_name) ==
    release_name \o "-" \o dist_label

prefix_label(dist_label, package_name) ==
    IF startswith(package_name, "iso") \/ startswith(package_name, "qubes-template")
    THEN release_name
    ELSE release_name \o "-" \o dist_label

\* the branches of get_labels, for the prefix p
get_labels_rows(command, repository_type, build_status, p) ==
    LET base == <<p \o "-failed", p \o "-building">>
    IN  IF command = "upload" /\ build_status = "uploaded"
        THEN CASE repository_type \in {"current", "stable"} ->
                    <<  <<p \o "-stable", release_name \o "-stable">>,
                        base \o <<p \o "-cur-test", p \o "-sec-test">>  >>
               [] repository_type = "current-testing" ->
                    << <<p \o "-cur-test">>, base >>
               [] repository_type = "security-testing" ->
                    << <<p \o "-sec-test">>, base >>
               [] repository_type = "templates-itl" ->
                    << <<release_name \o "-stable">>,
                       base \o <<release_name \o "-testing">> >>
               [] repository_type = "templates-itl-testing" ->
                    << <<release_name \o "-testing">>, base >>
               [] repository_type = "templates-community" ->
                    << <<release_name \o "-stable">>,
                       base \o <<release_name \o "-testing", "iso">> >>
               [] repository_type \in {"templates-community-testing", "iso-testing"} ->
                    << <<release_name \o "-testing">>, base >>
               [] OTHER -> << <<>>, <<>> >>
        ELSE IF command = "build"
        THEN CASE build_status = "failed" ->
                    << <<p \o "-failed">>, <<p \o "-building">> >>
               [] build_status = "building" ->
                    << <<p \o "-building">>, <<p \o "-failed">> >>
               [] build_status = "built" ->
                    << <<>>, base >>
               [] OTHER -> << <<>>, <<>> >>
        ELSE << <<>>, <<>> >>

\* get_labels where a building notification keeps the failed label
get_labels_keeps_failed(command, repository_type, build_status, dist_label, package_name) ==
    LET r == get_labels_rows(command, repository_type, build_status,
                             prefix_label(dist_label, package_name))
    IN  IF command = "build" /\ build_status = "building"
        THEN <<r[1], <<>>>>
        ELSE r

\* get_labels where an upload to templates-community keeps the iso label
get_labels_keeps_iso(command, repository_type, build_status, dist_label, package_name) ==
    LET r == get_labels_rows(command, repository_type, build_status,
                             prefix_label(dist_label, package_name))
    IN  IF command = "upload" /\ build_status = "uploaded"
           /\ repository_type = "templates-community"
        THEN <<r[1], SubSeq(r[2], 1, 3)>>
        ELSE r

\* get_labels where a template's stable upload keeps the testing label
get_labels_keeps_testing(command, repository_type, build_status, dist_label, package_name) ==
    LET r == get_labels_rows(command, repository_type, build_status,
                             prefix_label(dist_label, package_name))
    IN  IF command = "upload" /\ build_status = "uploaded"
           /\ repository_type \in {"templates-itl", "templates-community"}
        THEN <<r[1], SubSeq(r[2], 1, 2)>>
        ELSE r

\* get_labels where a failed upload sets the failed label
get_labels_marks_failed_upload(command, repository_type, build_status, dist_label, package_name) ==
    IF command = "upload" /\ build_status = "failed"
    THEN << <<prefix_label(dist_label, package_name) \o "-failed">>, <<>> >>
    ELSE get_labels_rows(command, repository_type, build_status,
                         prefix_label(dist_label, package_name))

get_labels(command, repository_type, build_status, dist_label, package_name) ==
    get_labels_rows(command, repository_type, build_status,
                    prefix_label(dist_label, package_name))

(***************************************************************************)
(* NotifyIssueCli.run, as far as the report issue's labels go.             *)
(***************************************************************************)
\* dist_label of run(): "host" for the host package set
\* run() labelling every distribution as the host
dist_label_always_host(dist) == "host"

dist_label_of(dist) ==
    IF dist.package_set = "host" THEN "host" ELSE dist.distribution

\* run() renames the upload channel current to stable before get_labels
\* run() without the renaming of current
effective_repository_type_keeps_current(command, repository_type) ==
    repository_type

effective_repository_type(command, repository_type) ==
    IF command = "upload" /\ repository_type = "current"
    THEN "stable"
    ELSE repository_type

\* Places of run() where a tracker or git operation can fail.
\*   get_repo      : repository lookup (search_or_create_issue, comment_issue)
\*   get_issues    : iteration over the open issues
\*   create_issue  : creation of the report issue
\*   get_issue     : lookup of the issue to comment
\*   changelog     : git describe of get_package_changes gives nothing
\*   closed_issues : comment_issue of a referenced issue raises
Faults ==
    {"none", "get_repo", "get_issues", "create_issue", "get_issue",
     "create_comment", "changelog", "closed_issues"}

\* What run() does with a fault: "ok" (it returns), "NotifyIssueError"
\* (raised to the caller) or "escape" (another exception class is raised).
run_outcome(fault) ==
    CASE fault = "none" -> "ok"
      [] fault = "get_repo" -> "NotifyIssueError"
      [] fault = "get_issues" -> "escape"
      [] fault = "create_issue" -> "ok"
      [] fault = "get_issue" -> "NotifyIssueError"
      [] fault = "create_comment" -> "ok"
      [] fault = "changelog" -> "escape"
      [] fault = "closed_issues" -> "NotifyIssueError"

\* The faults that can happen in a call of run() with these arguments.
possible_faults(command, repository_type, build_status, package_name, issue_open) ==
    {f \in Faults :
        /\ f = "changelog" =>
              ~(startswith(package_name, "qubes-template")
                \/ startswith(package_name, "iso"))
        /\ f = "create_issue" => ~issue_open
        /\ f = "create_comment" => build_status # "building"
        /\ f = "closed_issues" =>
              /\ command = "upload" /\ build_status = "uploaded"
              /\ effective_repository_type(command, repository_type)
                    \in {"stable", "current-testing"}}

(***************************************************************************)
(* NotifyIssueCli.get_package_changes over a linear history: log[i] is the *)
(* i-th commit, oldest first, with its annotated v* tag (None without one) *)
(* and the issues its message references; the last commit is checked out   *)
(* and is current_commit.                                                  *)
(***************************************************************************)
VersionTags == {"v1.0", "v1.1"}
ReferencedIssue == "QubesOS/qubes-issues#7"

\* the hash of the i-th commit
commit_id(i) == "c" \o ToString(i)

\* the closest tagged commit at or before the i-th, 0 without one
nearest_tagged(log, i) ==
    IF \E j \in 1..i : log[j].tag # None
    THEN CHOOSE j \in 1..i : log[j].tag # None /\ \A k \in (j + 1)..i : log[k].tag = None
    ELSE 0

\* git describe --match v* --always <i-th commit>
git_describe_always(log, i) ==
    LET j == nearest_tagged(log, i)
    IN  IF j = 0 THEN commit_id(i)
        ELSE IF j = i THEN log[i].tag
        ELSE log[j].tag \o "-" \o ToString(i - j) \o "-g" \o commit_id(i)

\* git describe --match v* --exact-match <i-th commit>: empty without a tag
git_describe_exact(log, i) == IF log[i].tag # None THEN log[i].tag ELSE ""

\* git describe --match v* --abbrev=0 <i-th commit>: empty without a tag, or
\* when the revision does not exist
git_describe_abbrev0(log, i) ==
    IF i < 1 \/ nearest_tagged(log, i) = 0 THEN ""
    ELSE log[nearest_tagged(log, i)].tag

\* git rev-list --max-parents=0 <i-th commit>: the root commit, empty when
\* the revision does not exist
git_rev_list_root(log, i) == IF i < 1 THEN "" ELSE commit_id(1)

\* the commit a revision names: a tag, a hash or the output of git describe
git_rev_parse(log, revision) ==
    CHOOSE i \in 1..Len(log) :
        revision \in {commit_id(i), log[i].tag, git_describe_always(log, i)}

\* git log previous..version, newest first
RECURSIVE git_log_range(_, _, _)
git_log_range(log, previous, version) ==
    IF version <= previous THEN <<>>
    ELSE <<version>> \o git_log_range(log, previous, version - 1)

\* current_commit + "~" taken for current_commit
parent_is_self(i) == i

\* current_commit + "~"
parent_of(i) == i - 1

\* get_package_changes(git_url, current_commit, previous_current_commit)
get_package_changes(log, previous_current_commit) ==
    LET current == Len(log)
        version == git_describe_always(log, current)
        explicit ==
            IF git_describe_exact(log, git_rev_parse(log, previous_current_commit)) = ""
            THEN previous_current_commit
            ELSE git_describe_exact(log, git_rev_parse(log, previous_current_commit))
        described ==
            IF previous_current_commit # None /\ previous_current_commit # ""
            THEN explicit
            ELSE git_describe_abbrev0(log, parent_of(current))
        version_tags ==
            IF described = "" THEN git_rev_list_root(log, parent_of(current))
            ELSE described
        range == git_log_range(log, git_rev_parse(log, version_tags), current)
    IN  IF version_tags = ""
        THEN [version |-> version, previous_version |-> version,
              shortlog |-> <<>>, referenced_issues |-> {}]
        ELSE [version |-> version, previous_version |-> version_tags,
              shortlog |-> [k \in 1..Len(range) |-> commit_id(range[k])],
              referenced_issues |->
                  UNION {log[range[k]].issues : k \in 1..Len(range)}]

\* The commits of the sources, oldest first; the message of the second one
\* carries a trailer matched by fixes_re.
Commits == <<"c1", "c2">>
ClosedIssue == "QubesOS/qubes-issues#101"
OtherIssue == "QubesOS/qubes-issues#102"

commit_index(commit) == CHOOSE i \in 1..Len(Commits) : Commits[i] = commit

\* the issues named by the fixes/closes trailers of one commit message
fixes_of(commit) ==
    IF commit = Commits[2] THEN {ClosedIssue, OtherIssue} ELSE {}

\* the issues notify_closed_issues has commented when it returns (fault is
\* not "closed_issues") or when comment_issue raises for one of them: the
\* set is walked in any order, so any of the others may have been done
commented_issues(referenced, fault) ==
    IF fault = "closed_issues"
    THEN {done \in SUBSET referenced : done # referenced}
    ELSE {referenced}

\* the closing comments after those of one call: one more for each issue
\* commented, for the commit being uploaded
closing_after(posted, done, commit) ==
    [key \in DOMAIN posted |->
        IF key[1] \in done /\ key[2] = commit THEN posted[key] + 1
        ELSE posted[key]]

\* git log previous_commit..current_commit: nothing on stdout when a
\* revision is unknown
git_log(previous_commit, current_commit) ==
    IF {previous_commit, current_commit} \subseteq Elems(Commits)
    THEN {Commits[i] : i \in (commit_index(previous_commit) + 1)..commit_index(current_commit)}
    ELSE {}

\* closed_issues of notify_closed_issues
closed_issues(previous_commit, current_commit) ==
    UNION {fixes_of(commit) : commit \in git_log(previous_commit, current_commit)}

\* state_file.exists() and state_file.read_text().strip()
state_file_exists(store, file) == \E entry \in store : entry[1] = file
state_file_read(store, file) == (CHOOSE entry \in store : entry[1] = file)[2]

\* a write that leaves the file as it was
state_file_write_nothing(store, file, commit) == store

\* state_file.write_text(commit)
state_file_write(store, file, commit) ==
    {entry \in store : entry[1] # file} \cup {<<file, commit>>}

\* state_file of notify_build_status, for a component, a template and an ISO
state_file_of(package_name, dist, repository_publish) ==
    IF startswith(package_name, "iso")
    THEN release_name \o "-iso-" \o dist.name
    ELSE IF startswith(package_name, "qubes-template")
    THEN release_name \o "-template-vm-" \o dist.name \o "-" \o repository_publish
    ELSE release_name \o "-" \o package_name \o "-" \o dist.package_set
            \o "-" \o dist.name \o "-" \o repository_publish

\* stable_state_file of notify_build_status
stable_state_file_of(package_name, dist) ==
    IF startswith(package_name, "iso")
    THEN release_name \o "-iso-" \o dist.name \o "-current"
    ELSE IF startswith(package_name, "qubes-template")
    THEN release_name \o "-template-vm-" \o dist.name \o "-current"
    ELSE release_name \o "-" \o package_name \o "-" \o dist.package_set
            \o "-" \o dist.name \o "-current"

\* the channels whose upload starts the pass over the closed issues
ClosedPassChannels == {"stable", "current-testing"}

\* a pass over the closed issues for every channel
closed_pass_any_channel(uploaded, previous_commit, repository_type) ==
    uploaded /\ previous_commit # None

\* run() calls notify_closed_issues
closed_pass_runs(uploaded, previous_commit, repository_type) ==
    uploaded /\ previous_commit # None /\ repository_type \in ClosedPassChannels

\* a search that never finds the issue
search_issue_finds_nothing(open) == None

\* search_or_create_issue: the number of the open issue with the title, if any
search_issue(open) == IF open THEN "found" ELSE None

\* search_or_create_issue returned an issue number and comment_issue found it
reaches_issue(fault) == fault \in {"none", "create_comment"}

\* search_or_create_issue got as far as creating the issue
creates_issue(fault) == fault \in {"none", "get_issue", "create_comment"}

\* s.rstrip(".")
RECURSIVE rstrip_dot(_)
rstrip_dot(s) ==
    IF Len(s) > 0 /\ SubSeq(s, Len(s), Len(s)) = "."
    THEN rstrip_dot(SubSeq(s, 1, Len(s) - 1))
    ELSE s

\* package_name.replace("qubes-template-", "") of a template package name
template_name_of(package_name) ==
    SubSeq(package_name, Len("qubes-template-") + 1, Len(package_name))

\* a report that leaves the build log and the additional info out
report_message_without_info(command, build_status, package_name, dist_label, repository_type, repository_url, build_log, additional_info) ==
    CASE build_status = "building" -> None
      [] build_status = "built" -> "Package for " \o dist_label \o " was built."
      [] build_status = "uploaded" ->
            "Package for " \o dist_label \o " was uploaded to "
                \o repository_type \o " repository."
      [] OTHER -> "Package for " \o dist_label \o " failed to " \o command \o "."

\* a report that appends the additional info as a paragraph to every comment
report_message_info_as_paragraph(command, build_status, package_name, dist_label, repository_type, repository_url, build_log, additional_info) ==
    IF build_status = "building" THEN None
    ELSE "Package for " \o dist_label \o " was " \o build_status
            \o (IF additional_info = None THEN "." ELSE ":\n\n" \o additional_info)

\* report_message of run(): the text of the comment, None for building
report_message(command, build_status, package_name, dist_label, repository_type, repository_url, build_log, additional_info) ==
    LET base_message ==
            IF startswith(package_name, "iso")
            THEN "ISO for " \o release_name
            ELSE IF startswith(package_name, "qubes-template")
            THEN "Template " \o template_name_of(package_name)
            ELSE "Package for " \o dist_label
        upload_suffix_message ==
            IF startswith(package_name, "iso")
            THEN IF repository_url # None
                 THEN "[testing](" \o repository_url \o ") repository"
                 ELSE "testing repository"
            ELSE repository_type \o " repository"
        with_info(message) ==
            IF additional_info = None \/ additional_info = ""
            THEN message
            ELSE rstrip_dot(message) \o " (" \o additional_info \o ")."
        log_link ==
            IF build_log = None \/ build_log = ""
            THEN "."
            ELSE " ([build log](" \o build_log \o "))."
        suffix_message ==
            IF command = "build" THEN "build"
            ELSE "upload to " \o upload_suffix_message
        failed_message == base_message \o " failed to " \o suffix_message \o log_link
    IN  CASE build_status = "building" -> None
          [] build_status = "built" ->
                with_info(base_message \o " was built" \o log_link)
          [] build_status = "uploaded" ->
                with_info(base_message \o " was uploaded to "
                              \o upload_suffix_message \o ".")
          [] build_status = "failed" ->
                IF additional_info = None \/ additional_info = ""
                THEN failed_message
                ELSE rstrip_dot(failed_message) \o ":\n\n" \o additional_info

\* comment_issue: the delete loop, then the add loop; an operation in
\* failed_del / failed_add raises GithubException, which is logged.
\* comment_issue giving up at the first label operation that fails
comment_issue_aborts(current, add_labels, delete_labels, failed_del, failed_add) ==
    IF failed_del \cup failed_add = {}
    THEN (current \ Elems(delete_labels)) \cup Elems(add_labels)
    ELSE current

\* comment_issue without its loop over delete_labels
comment_issue_adds_only(current, add_labels, delete_labels, failed_del, failed_add) ==
    current \cup (Elems(add_labels) \ failed_add)

comment_issue_labels(current, add_labels, delete_labels, failed_del, failed_add) ==
    (current \ (Elems(delete_labels) \ failed_del))
        \cup (Elems(add_labels) \ failed_add)

(***************************************************************************)
(* github-action.py: log capture (make_with_log).                          *)
(***************************************************************************)
\* BaseAutoAction.on_error_lines_to_report, the capacity of the tail buffer
on_error_lines_to_report == 30

LocalLogFile == "/home/user/builder.log"
logs_repo == "QubesOS/build-logs"

\* what the external stage function does: it returns, or raises an error of
\* the build engine, or is interrupted by the alarm (TimeoutError)
FuncOutcomes == {"ok", "PluginError", "TimeoutError"}

\* standard output of the qubesbuilder.BuildLog child, as stripped lines
ChildStdouts == {<<>>, <<"testvm/log_2025-01-01">>, <<"Request refused">>}

\* what the BuildLog child did: its output, whether it wrote to stderr,
\* and whether the pipe to its stdin broke (a child that is gone prints
\* nothing)
ChildOutcomes ==
    {c \in [out : ChildStdouts, err : BOOLEAN, pipe : {"open", "broken"}] :
        c.pipe = "broken" => c.out = <<>>}

\* re.fullmatch(r".*[\S\w.-]+/log_[\S\w.-]+", line): some "/log_" with a
\* non-blank character before it and only non-blank characters after it
IsBlank(c) == c \in {" ", "\t"}

matches_log_path(line) ==
    \E i \in 2..(Len(line) - 5) :
        /\ SubSeq(line, i, i + 4) = "/log_"
        /\ ~IsBlank(SubSeq(line, i - 1, i - 1))
        /\ \A j \in (i + 5)..Len(line) : ~IsBlank(SubSeq(line, j, j))

\* a parser that keeps the last line that matches
get_log_file_last_match(stdout) ==
    LET hits == {k \in DOMAIN stdout :
                    stdout[k] # "" /\ matches_log_path(stdout[k])}
    IN  IF hits = {}
        THEN None
        ELSE stdout[CHOOSE k \in hits : \A m \in hits : k >= m]

\* get_log_file_from_qubesbuilder_buildlog: the first non-empty line that
\* matches, or None
get_log_file_from_qubesbuilder_buildlog(stdout) ==
    LET hits == {k \in DOMAIN stdout :
                    stdout[k] # "" /\ matches_log_path(stdout[k])}
    IN  IF hits = {}
        THEN None
        ELSE stdout[CHOOSE k \in hits : \A m \in hits : k <= m]

\* str.strip(chars): the characters of chars are removed from both ends
RECURSIVE strip_chars(_, _)
strip_chars(s, chars) ==
    IF s = "" THEN s
    ELSE IF SubSeq(s, 1, 1) \in chars
    THEN strip_chars(SubSeq(s, 2, Len(s)), chars)
    ELSE IF SubSeq(s, Len(s), Len(s)) \in chars
    THEN strip_chars(SubSeq(s, 1, Len(s) - 1), chars)
    ELSE s

\* str.strip(): white space is removed from both ends
strip(s) == strip_chars(s, {" ", "\t", "\n"})

\* str.splitlines() of a text whose lines end with "\n"
RECURSIVE splitlines(_)
splitlines(s) ==
    IF s = "" THEN <<>>
    ELSE LET ends == {i \in 1..Len(s) : SubSeq(s, i, i) = "\n"}
         IN  IF ends = {} THEN <<s>>
             ELSE LET i == CHOOSE e \in ends : \A m \in ends : e <= m
                  IN  <<SubSeq(s, 1, i - 1)>>
                          \o splitlines(SubSeq(s, i + 1, Len(s)))

\* "raw.strip() for raw in stdout.splitlines()" of the parser of the
\* output of the child
stripped_lines(stdout) ==
    [k \in DOMAIN splitlines(stdout) |-> strip(splitlines(stdout)[k])]

\* a deque without maxlen
deque_append_unbounded(buffer, line, capacity) == Append(buffer, line)

\* deque(maxlen=capacity).append
deque_append(buffer, line, capacity) ==
    IF Len(buffer) < capacity
    THEN Append(buffer, line)
    ELSE Append(Tail(buffer), line)

\* "\n".join(lines)
RECURSIVE JoinLines(_)
JoinLines(lines) ==
    IF lines = <<>> THEN ""
    ELSE IF Len(lines) = 1 THEN lines[1]
    ELSE lines[1] \o "\n" \o JoinLines(Tail(lines))

\* lines[-n:]
LastLines(lines, n) ==
    IF Len(lines) <= n THEN lines
    ELSE SubSeq(lines, Len(lines) - n + 1, Len(lines))

\* TailBufferHandler.text
tail_text(buffer, capacity) ==
    IF buffer = <<>>
    THEN None
    ELSE "Last " \o ToString(capacity) \o " log lines:\n" \o JoinLines(buffer)

\* the message of the AutoActionError: class and text of the caught exception
error_message(func) == func \o ": stage failed"

\* SafeWrapper: the wrapper of the handler that writes to the child's stdin.
\* disabled is _disabled, attached tells whether the wrapper is still a
\* handler of the logger, inner_open whether the inner handler is open.
\* parent tells whether a parent_logger was given.
NewSink ==
    [disabled |-> FALSE, attached |-> TRUE, inner_open |-> TRUE, parent |-> TRUE]

\* what inner.emit(record) can do: write, or raise
InnerOutcomes == {"ok", "BrokenPipeError", "OSError"}

\* a wrapper that lets every error of inner.emit through
SafeWrapper_emit_raw(sink, inner) ==
    [sink |-> sink, called |-> TRUE, raised |-> inner # "ok"]

\* a wrapper that swallows the broken pipe but stays enabled
SafeWrapper_emit_stays_enabled(sink, inner) ==
    [sink |-> sink, called |-> TRUE, raised |-> inner = "OSError"]

\* SafeWrapper.emit with inner.emit ending as inner: the wrapper afterwards,
\* whether inner.emit was called, and whether emit raised to its caller
SafeWrapper_emit(sink, inner) ==
    IF sink.disabled
    THEN [sink |-> sink, called |-> FALSE, raised |-> FALSE]
    ELSE IF inner = "BrokenPipeError"
    THEN [sink |-> [disabled |-> TRUE,
                    attached |-> IF sink.parent THEN FALSE ELSE sink.attached,
                    inner_open |-> FALSE, parent |-> sink.parent],
          called |-> TRUE, raised |-> FALSE]
    ELSE [sink |-> sink, called |-> TRUE, raised |-> inner # "ok"]

\* result of make_with_log: a returned value or a raised AutoActionError
Returned(value) ==
    [kind |-> "return", value |-> value, msg |-> None, log_file |-> None,
     tail |-> None]

RaisedAutoActionError(msg, log_file, tail) ==
    [kind |-> "raise", value |-> None, msg |-> msg, log_file |-> log_file,
     tail |-> tail]

\* make_with_log_local: func is the outcome of the stage function, readable
\* tells whether the log file can be read back
make_with_log_local(func, readable) ==
    LET all_lines == <<"> starting build with log">>
    IN  IF func = "ok"
        THEN Returned(LocalLogFile)
        ELSE IF ~readable
        THEN Returned("> failed to read log tail")
        ELSE RaisedAutoActionError(
                 error_message(func), LocalLogFile,
                 "Last " \o ToString(on_error_lines_to_report)
                     \o " log lines:\n"
                     \o JoinLines(LastLines(all_lines, on_error_lines_to_report)))

\* make_with_log_qrexec: child is the output of the BuildLog child process
make_with_log_qrexec(func, child) ==
    LET first == SafeWrapper_emit(NewSink,
                                  IF child.pipe = "broken"
                                  THEN "BrokenPipeError" ELSE "ok")
        logged == IF func = "ok"
                  THEN <<"> starting build with log", "> done">>
                  ELSE <<"> starting build with log">>
        log_file == get_log_file_from_qubesbuilder_buildlog(child.out)
        buffer == IF log_file = None /\ child.err
                  THEN deque_append(logged, "> error", on_error_lines_to_report)
                  ELSE logged
    IN  IF first.raised
        \* log.debug("> starting build with log") is outside the inner try
        THEN RaisedAutoActionError("BrokenPipeError", None, None)
        ELSE IF func = "ok"
        THEN Returned(log_file)
        ELSE RaisedAutoActionError(error_message(func), log_file,
                                   tail_text(buffer, on_error_lines_to_report))

\* make_with_log without the dry-run test
make_with_log_always_runs(dry_run, local, func, readable, child) ==
    IF local THEN make_with_log_local(func, readable)
    ELSE make_with_log_qrexec(func, child)

\* make_with_log: nothing is run in dry-run mode
make_with_log(dry_run, local, func, readable, child) ==
    IF dry_run THEN Returned(None)
    ELSE IF local THEN make_with_log_local(func, readable)
    ELSE make_with_log_qrexec(func, child)

\* BaseAutoAction.get_build_log_url
get_build_log_url(local, log_file) ==
    IF local
    THEN log_file
    ELSE "https://github.com/" \o logs_repo \o "/tree/master/" \o log_file

\* "get_build_log_url(log_file) if log_file else None" of notify_build_status
build_log_of(local, log_file) ==
    IF log_file = None \/ log_file = ""
    THEN None
    ELSE get_build_log_url(local, log_file)

\* the default of max_tail_chars of format_additional_info
max_tail_chars == 3500

\* the marker put before a truncated tail ("\u2026\n" in the source)
Ellipsis == "...\n"

\* a tail that is never cut
truncated_tail_keeps_all(tail, max_chars) == strip_chars(tail, {"\n"})

\* the tail of a report: tail.strip("\n"), cut to its last max_chars
\* characters behind the marker when it is longer (0: no limit)
truncated_tail(tail, max_chars) ==
    LET t == strip_chars(tail, {"\n"})
    IN  IF max_chars # 0 /\ Len(t) > max_chars
        THEN Ellipsis \o SubSeq(t, Len(t) - max_chars + 1, Len(t))
        ELSE t

\* format_additional_info(base, tail, max_tail_chars=max_chars): the base
\* paragraph and the tail paragraph, joined by an empty line (the code
\* fence around the tail is left out)
format_additional_info_max(base, tail, max_chars) ==
    LET base_txt == IF base = None THEN "" ELSE strip(base)
        base_par == IF base_txt = ""
                    THEN <<>>
                    ELSE <<"**Additional info:** " \o base_txt>>
        tail_par == IF tail = None \/ tail = ""
                    THEN <<>>
                    ELSE <<"**Log tail (last ~"
                             \o ToString(on_error_lines_to_report)
                             \o " lines):**\n<details>\n\n"
                             \o truncated_tail(tail, max_chars)
                             \o "\n</details>">>
        paragraphs == base_par \o tail_par
    IN  IF paragraphs = <<>>
        THEN None
        ELSE IF Len(paragraphs) = 1 THEN paragraphs[1]
        ELSE paragraphs[1] \o "\n\n" \o paragraphs[2]

\* format_additional_info as build() and upload() call it
format_additional_info(base, tail) ==
    format_additional_info_max(base, tail, max_tail_chars)

(***************************************************************************)
(* github-action.py: the orchestrator.                                     *)
(***************************************************************************)
MainCommands ==
    {"build-component", "upload-component", "build-template",
     "upload-template", "build-iso"}

BuildCommands == {"build-component", "build-template", "build-iso"}

\* package_name of the notifications of a command
package_of(cmd) ==
    CASE cmd \in {"build-component", "upload-component"} -> ComponentPkg
      [] cmd \in {"build-template", "upload-template"} -> TemplatePkg
      [] cmd = "build-iso" -> IsoPkg

\* repository_publish of the action
repository_publish_of(cmd) ==
    CASE cmd = "build-component" -> "current-testing"
      [] cmd = "upload-component" -> "current"
      [] cmd = "build-template" -> "templates-itl-testing"
      [] cmd = "upload-template" -> "templates-itl"
      [] cmd = "build-iso" -> "iso-testing"

\* a try block that notifies built before the build stage group has run
steps_built_first(cmd) ==
    CASE cmd = "build-component" ->
            <<"notify_building", "notify_built", "stage_build",
              "stage_upload", "notify_uploaded">>
      [] cmd = "build-template" ->
            <<"notify_building", "stage_fetch", "notify_built", "stage_build",
              "stage_upload", "notify_uploaded">>
      [] cmd = "build-iso" ->
            <<"notify_building", "stage_fetch", "notify_built", "stage_build",
              "stage_upload", "trigger_openqa", "notify_uploaded">>
      [] cmd \in {"upload-component", "upload-template"} ->
            <<"stage_publish", "notify_uploaded">>

\* the statements of the try block of build() / upload(), in order
steps_of(cmd) ==
    CASE cmd = "build-component" ->
            <<"notify_building", "stage_build", "notify_built",
              "stage_upload", "notify_uploaded">>
      [] cmd = "build-template" ->
            <<"notify_building", "stage_fetch", "stage_build", "notify_built",
              "stage_upload", "notify_uploaded">>
      [] cmd = "build-iso" ->
            <<"notify_building", "stage_fetch", "stage_build", "notify_built",
              "stage_upload", "trigger_openqa", "notify_uploaded">>
      [] cmd \in {"upload-component", "upload-template"} ->
            <<"stage_publish", "notify_uploaded">>

\* notify_github: "nokey" and "dry" send nothing, "ok" is a report that
\* returned, "logged" a NotifyIssueError caught and logged, "escape" an
\* exception of another class raised to the caller
notify_github(api_key, dry_run, fault) ==
    IF ~api_key THEN "nokey"
    ELSE IF dry_run THEN "dry"
    ELSE CASE run_outcome(fault) = "ok" -> "ok"
           [] run_outcome(fault) = "NotifyIssueError" -> "logged"
           [] run_outcome(fault) = "escape" -> "escape"

\* the except clause of build() / upload() that catches an exception class
handler_for(cmd, class) ==
    CASE class = "AutoActionError" -> "AutoActionError"
      [] class = "QubesBuilderError" /\ cmd \in BuildCommands -> "QubesBuilderError"
      [] class = "TimeoutError" -> "TimeoutError"
      [] OTHER -> "Exception"

\* main() without its except clauses
main_catches_nothing(class) == "uncaught"

\* the except clause of main() that catches an exception class raised by
\* build() / upload()
main_handler_for(class) ==
    CASE class = "CommitMismatchError" -> "warning"
      [] class = "AutoActionTimeout" -> "on_timeout"
      [] OTHER -> "uncaught"

\* Python values of a distribution d: the object and its name
DistObject(d) == <<"QubesDistribution", d>>
DistName(d) == <<"str", d>>

\* x in list
PyIn(x, list) == \E k \in DOMAIN list : list[k] = x

\* "dist.name not in self.built_for_dist" of notify_build_status_on_timeout
not_in_built_for_dist(d, built) == ~PyIn(DistName(d), built)

\* ---- the guards before the stage groups ----------------------------------
\* the timestamps of the command line and of the artifact files; "latest"
\* is a text strptime rejects
Timestamps == {"202501010000", "202501020000"}
TimestampTexts == Timestamps \cup {"latest"}

\* the value of a decimal digit, -1 for any other character
digit_value(c) ==
    CASE c = "0" -> 0 [] c = "1" -> 1 [] c = "2" -> 2 [] c = "3" -> 3
      [] c = "4" -> 4 [] c = "5" -> 5 [] c = "6" -> 6 [] c = "7" -> 7
      [] c = "8" -> 8 [] c = "9" -> 9 [] OTHER -> -1

all_digits(s) == \A i \in 1..Len(s) : digit_value(SubSeq(s, i, i)) >= 0

\* int(s) of a text of digits
RECURSIVE int_of(_)
int_of(s) ==
    IF s = "" THEN 0
    ELSE int_of(SubSeq(s, 1, Len(s) - 1)) * 10
            + digit_value(SubSeq(s, Len(s), Len(s)))

\* datetime.datetime.strptime(text, "%Y%m%d%H%M") of a text of twelve
\* characters: the datetime as <<year, month, day, hour, minute>>, or a
\* ValueError (ok is FALSE)
strptime(text) ==
    IF Len(text) = 12 /\ all_digits(text)
    THEN LET value == <<int_of(SubSeq(text, 1, 4)), int_of(SubSeq(text, 5, 6)),
                        int_of(SubSeq(text, 7, 8)), int_of(SubSeq(text, 9, 10)),
                        int_of(SubSeq(text, 11, 12))>>
         IN  [ok |-> /\ value[1] >= 1
                     /\ value[2] \in 1..12
                     /\ value[3] \in 1..31
                     /\ value[4] \in 0..23
                     /\ value[5] \in 0..59,
              value |-> value]
    ELSE [ok |-> FALSE, value |-> <<>>]

\* str(n).zfill(width)
RECURSIVE zfill(_, _)
zfill(s, width) == IF Len(s) >= width THEN s ELSE zfill("0" \o s, width)

\* datetime.strftime("%Y%m%d%H%M")
strftime(value) ==
    zfill(ToString(value[1]), 4) \o zfill(ToString(value[2]), 2)
        \o zfill(ToString(value[3]), 2) \o zfill(ToString(value[4]), 2)
        \o zfill(ToString(value[5]), 2)

\* a < b of two datetimes
RECURSIVE datetime_lt(_, _)
datetime_lt(a, b) ==
    /\ a # <<>>
    /\ \/ a[1] < b[1]
       \/ a[1] = b[1] /\ datetime_lt(Tail(a), Tail(b))

\* a <= b of two datetimes
datetime_le(a, b) == a = b \/ datetime_lt(a, b)

\* qubes_release.lstrip("r") + ".0"
template_version_of(release) ==
    (IF startswith(release, "r") THEN SubSeq(release, 2, Len(release))
     ELSE release) \o ".0"

\* a guard that lets a template of the recorded timestamp be built again
newer_template_guard_strict(timestamp_file, template_timestamp) ==
    IF timestamp_file = None THEN "go"
    ELSE IF ~strptime(timestamp_file).ok \/ ~strptime(template_timestamp).ok
    THEN "raise"
    ELSE IF datetime_lt(strptime(template_timestamp).value,
                        strptime(timestamp_file).value)
    THEN "return"
    ELSE "go"

\* AutoActionTemplate.build before the with block: timestamp_file is the
\* timestamp of <template>.build.yml (None: no such file); build() returns
\* ("return"), raises AutoActionError ("raise") or goes on ("go")
newer_template_guard(timestamp_file, template_timestamp) ==
    IF timestamp_file = None THEN "go"
    ELSE IF ~strptime(timestamp_file).ok \/ ~strptime(template_timestamp).ok
    THEN "raise"
    ELSE IF datetime_le(strptime(template_timestamp).value,
                        strptime(timestamp_file).value)
    THEN "return"
    ELSE "go"

\* AutoActionTemplate.upload before the with block: timestamp_file is the
\* timestamp of <template>.publish.yml (None: no such file)
upload_artifact_guard(timestamp_file, commit_sha, template_version) ==
    IF timestamp_file = None THEN "raise"
    ELSE IF ~strptime(timestamp_file).ok THEN "raise"
    ELSE IF commit_sha
              # template_version \o "-"
                    \o strftime(strptime(timestamp_file).value)
    THEN "raise"
    ELSE "go"

\* AutoAction.upload before the loop: the commit-mismatch guard
commit_mismatch_guard(commit_sha, actual_commit_sha) ==
    IF commit_sha # actual_commit_sha THEN "raise" ELSE "go"

(***************************************************************************)
(* State.                                                                  *)
(***************************************************************************)
VARIABLES
    package,      \* SpecNotify: package_name of the notifications (one issue)
    issue_open,   \* the tracker holds the report issue of the package
    labels,       \* labels of the report issue
    prev_labels,  \* labels before the last call of run()
    last_note,    \* arguments and fault of the last call of run()
    last_delta,   \* <<add_labels, delete_labels>> of the last call of run()
    label_fault,  \* some remove_from_labels / add_to_labels has failed
    n_notes,      \* number of calls of run() so far
    n_created,    \* number of issues created for the package
    observe,      \* SpecReport: the comments and the notifications are recorded
    details,      \* build_log, additional_info, repository_url given to run()
    comments,     \* bodies of the comments of the issue, in order
    history,      \* the notifications that reached the issue, in order
    head,         \* the current commit of the sources (get_current_commit)
    state_store,  \* the state files: a set of <<file name, recorded commit>>
    progress,     \* SpecShared: how far each distribution is through its build
    closing,      \* closing comments posted so far, per issue and commit
    gl_args,      \* SpecLabels: arguments of the call of get_labels
    gl_done,      \* get_labels has returned
    gl_result,    \* <<add_labels, delete_labels>> it returned
    gpc_args,     \* SpecChangelog: history and arguments of get_package_changes
    gpc_done,     \* get_package_changes has returned
    gpc_result,   \* what it returned
    text_args,    \* SpecText: arguments of the call of a text function
    text_done,    \* the function has returned
    text_result,  \* what it returned
    cfg,          \* Spec: command line and configuration of main()
    pc,           \* position in main() / build() / upload()
    ti,           \* index of the current element of cli_list
    di,           \* index of the current distribution
    si,           \* index of the current statement of the try block
    stage,        \* local variable stage of build()
    alarm,        \* SIGALRM deadline: "off", "armed" or "spent" (it fired)
    exc,          \* exception being handled or propagating
    build_log_file, \* local variable build_log_file / upload_log_file
    openqa_info,  \* additional_info returned by trigger_openqa
    built_for_dist, \* self.built_for_dist
    trace,        \* stages run and notifications emitted in this stage group
    counts,       \* per distribution: notifications emitted for this target
    mwl,          \* the last call of make_with_log and its result
    last_fault,   \* place of the fault of the last notification
    oi,           \* index of the loop of notify_build_status_on_timeout
    exit_code,    \* exit status of the process
    mismatched,   \* the targets whose upload raised CommitMismatchError
    sink,         \* SpecLog: the SafeWrapper around the handler of the child
    buffer,       \* TailBufferHandler.buffer
    capacity,     \* TailBufferHandler.capacity
    inserted,     \* every line inserted into the tail buffer, in order
    stderr_added, \* the stderr line of the transport has been appended
    sink_log,     \* what emit did since the pipe broke
    attached,     \* SpecCapture: the handlers make_with_log has on the logger
    handler_log,  \* the additions and removals of handlers that took effect
    mpc,          \* position in make_with_log
    capture       \* backend, outcomes and result of the call of make_with_log

tvars == <<text_args, text_done, text_result>>

lvars == <<gl_args, gl_done, gl_result, gpc_args, gpc_done, gpc_result, tvars>>

cvars == <<attached, handler_log, mpc, capture>>

svars == <<sink, buffer, capacity, inserted, stderr_added, sink_log, cvars>>

ovars ==
    <<cfg, pc, ti, di, si, stage, alarm, exc, build_log_file, openqa_info,
      built_for_dist, trace, counts, mwl, last_fault, oi, exit_code,
      mismatched>>

nvars ==
    <<package, issue_open, labels, prev_labels, last_note, last_delta,
      label_fault, n_notes, n_created, observe, details, comments,
      history, head, state_store, progress, closing>>

NoNote ==
    [command |-> None, dist |-> HostDist, build_status |-> None,
     repository_type |-> None, applied |-> FALSE,
     state_file |-> None, read |-> {}, wrote |-> FALSE,
     previous_stable_commit |-> None,
     closed_pass |-> FALSE, closed |-> {}, outcome |-> None,
     comment_failed |-> FALSE, failed_ops |-> {}]

\* run() called with its defaults for build_log, additional_info, repository_url
NoDetails == [build_log |-> None, additional_info |-> None, repository_url |-> None]

NotifyIdle ==
    /\ issue_open = FALSE
    /\ labels = {}
    /\ prev_labels = {}
    /\ last_note = NoNote
    /\ last_delta = << <<>>, <<>> >>
    /\ label_fault = FALSE
    /\ n_notes = 0
    /\ n_created = 0
    /\ comments = <<>>
    /\ history = <<>>
    /\ head = Commits[1]
    /\ state_store = {}
    /\ progress = [d \in Distributions |-> 0]
    /\ closing = [key \in {ClosedIssue, OtherIssue} \X Elems(Commits) |-> 0]

NoArgs ==
    [command |-> None, repository_type |-> None, build_status |-> None,
     dist |-> HostDist, package_name |-> ComponentPkg]

NoChanges ==
    [version |-> None, previous_version |-> None, shortlog |-> <<>>,
     referenced_issues |-> {}]

NoHistory == [log |-> <<>>, previous_current_commit |-> None]

NoText == [fn |-> None]

TextIdle ==
    /\ text_args = NoText
    /\ text_done = FALSE
    /\ text_result = None

ChangelogIdle ==
    /\ gpc_args = NoHistory
    /\ gpc_done = FALSE
    /\ gpc_result = NoChanges
    /\ TextIdle

LabelsIdle ==
    /\ gl_args = NoArgs
    /\ gl_done = FALSE
    /\ gl_result = << <<>>, <<>> >>
    /\ ChangelogIdle

\* broken: a write has failed with a broken pipe; since then, late_emits
\* counts the calls of emit, late_calls those of inner.emit, and raised
\* tells whether emit has raised (the failing call included)
NoSinkLog ==
    [broken |-> FALSE, late_emits |-> 0, late_calls |-> 0, raised |-> FALSE]

NoChild == [out |-> <<>>, err |-> FALSE, pipe |-> "open"]

\* local: the backend; func: how the stage function ended; child: what the
\* BuildLog child did; pending: the exception propagating through the
\* finally clause; outcome: "return" or the class of the exception raised
NoCapture ==
    [local |-> FALSE, func |-> None, child |-> NoChild, pending |-> None,
     outcome |-> None, result |-> Returned(None)]

CaptureIdle ==
    /\ attached = {}
    /\ handler_log = <<>>
    /\ mpc = "idle"
    /\ capture = NoCapture

LogIdle ==
    /\ sink = NewSink
    /\ buffer = <<>>
    /\ capacity = on_error_lines_to_report
    /\ inserted = <<>>
    /\ stderr_added = FALSE
    /\ sink_log = NoSinkLog
    /\ CaptureIdle

NoExc == [class |-> None, msg |-> None, log_file |-> None, tail |-> None]

Exc(class, msg, log_file, tail) ==
    [class |-> class, msg |-> msg, log_file |-> log_file, tail |-> tail]

NoCall ==
    [step |-> None, func |-> None, local |-> FALSE, readable |-> TRUE,
     child |-> NoChild, result |-> Returned(None)]

NoCounts ==
    [started |-> FALSE, completed |-> FALSE, uploaded |-> 0, failed |-> 0,
     on_timeout |-> 0]

NoCfg ==
    [cmd |-> "build-component", dry_run |-> FALSE, local |-> FALSE,
     api_key |-> FALSE, n_targets |-> 1, n_dists |-> 1,
     commit_sha |-> None, template_timestamp |-> None, timestamp_file |-> None]

OrchestratorIdle ==
    /\ pc = "main"
    /\ ti = 1
    /\ di = 1
    /\ si = 1
    /\ stage = "build"
    /\ alarm = "off"
    /\ exc = NoExc
    /\ build_log_file = None
    /\ openqa_info = None
    /\ built_for_dist = <<>>
    /\ trace = <<>>
    /\ counts = [d \in 1..cfg.n_dists |-> NoCounts]
    /\ mwl = NoCall
    /\ last_fault = "none"
    /\ oi = 1
    /\ exit_code = None
    /\ mismatched = {}

(***************************************************************************)
(* SpecLabels: one call of get_labels on arguments drawn from the command  *)
(* line's choices.                                                         *)
(***************************************************************************)
LabelsInit ==
    /\ gl_args \in
          [command : Commands, repository_type : Channels \cup {None},
           build_status : Statuses, dist : Distributions,
           package_name : Packages]
    /\ gl_done = FALSE
    /\ gl_result = << <<>>, <<>> >>
    /\ ChangelogIdle
    /\ package = ComponentPkg
    /\ observe = FALSE
    /\ details = NoDetails
    /\ NotifyIdle
    /\ cfg = NoCfg
    /\ OrchestratorIdle
    /\ LogIdle

CallGetLabels ==
    /\ ~gl_done
    /\ gl_done' = TRUE
    /\ gl_result' =
          get_labels(gl_args.command, gl_args.repository_type,
                     gl_args.build_status, dist_label_of(gl_args.dist),
                     gl_args.package_name)
    /\ UNCHANGED <<gl_args, gpc_args, gpc_done, gpc_result, tvars, nvars, ovars,
                   svars>>

LabelsNext == CallGetLabels

SpecLabels == LabelsInit /\ [][LabelsNext]_<<lvars, nvars, ovars, svars>>

(***************************************************************************)
(* SpecNotify: calls of NotifyIssueCli.run for one package.                *)
(***************************************************************************)
NotifyInit ==
    /\ package \in Packages
    /\ observe = FALSE
    /\ details = NoDetails
    /\ NotifyIdle
    /\ LabelsIdle
    /\ cfg = NoCfg
    /\ OrchestratorIdle
    /\ LogIdle

\* NotifyIssueCli.run(command, dist, package, build_status, repository_type,
\* repository_url, state_file, stable_state_file, build_log, additional_info):
\* fault is the place where a tracker or git operation fails, if any, and at
\* most max_failed label operations fail, in at most one report of a behaviour.
run(command, dist, build_status, repository_type, repository_url, state_file, stable_state_file, build_log, additional_info, fault, max_failed) ==
    LET rt == effective_repository_type(command, repository_type)
        d == get_labels(command, rt, build_status, dist_label_of(dist), package)
        message == report_message(command, build_status, package,
                                  dist_label_of(dist), rt, repository_url,
                                  build_log, additional_info)
        applied == reaches_issue(fault)
        uploaded == command = "upload" /\ build_status = "uploaded"
        previous_commit ==
            IF uploaded /\ state_file_exists(state_store, state_file)
            THEN state_file_read(state_store, state_file)
            ELSE None
        closed_pass == closed_pass_runs(uploaded, previous_commit, rt)
        referenced ==
            IF closed_pass THEN closed_issues(previous_commit, head) ELSE {}
        wrote == uploaded /\ fault # "closed_issues"
        created == search_issue(issue_open) = None /\ creates_issue(fault)
        \* stable_state_file is read after state_file has been written
        written == IF wrote THEN state_file_write(state_store, state_file, head)
                   ELSE state_store
        previous_stable_commit ==
            IF wrote /\ state_file_exists(written, stable_state_file)
            THEN state_file_read(written, stable_state_file)
            ELSE None
        note(failed_ops, done) ==
              [command |-> command, dist |-> dist, build_status |-> build_status,
               repository_type |-> repository_type, applied |-> applied,
               state_file |-> IF uploaded THEN state_file ELSE None,
               read |-> IF uploaded
                        THEN {state_file}
                               \cup (IF wrote THEN {stable_state_file} ELSE {})
                        ELSE {},
               wrote |-> wrote,
               previous_stable_commit |-> previous_stable_commit,
               closed_pass |-> closed_pass,
               closed |-> done,
               outcome |-> run_outcome(fault),
               comment_failed |-> fault = "create_comment",
               failed_ops |-> failed_ops]
    IN  /\ fault \in possible_faults(command, repository_type, build_status,
                                      package, issue_open)
        \* comment_issue of a referenced issue can fail only if there is one
        /\ fault = "closed_issues" => referenced # {}
        /\ n_notes' = n_notes + 1
        /\ last_delta' = d
        /\ state_store' = written
        /\ prev_labels' = labels
        \* search_or_create_issue creates the issue unless a fault came first
        /\ issue_open' = (issue_open \/ creates_issue(fault))
        /\ n_created' = n_created + (IF created THEN 1 ELSE 0)
        \* comment_issue: the comment first, then the labels
        /\ comments' =
              IF observe /\ applied /\ message # None /\ fault # "create_comment"
              THEN Append(comments, message)
              ELSE comments
        /\ history' =
              IF observe /\ applied
              THEN Append(history, <<command, build_status, repository_type>>)
              ELSE history
        /\ \E done \in commented_issues(referenced, fault) :
              /\ closing' = closing_after(closing, done, head)
              /\ IF applied
                 THEN \E failed_del \in SUBSET Elems(d[2]),
                         failed_add \in SUBSET Elems(d[1]) :
                        /\ Cardinality(failed_del) + Cardinality(failed_add)
                              <= (IF label_fault THEN 0 ELSE max_failed)
                        /\ labels' = comment_issue_labels(labels, d[1], d[2],
                                                          failed_del, failed_add)
                        /\ label_fault' =
                              (label_fault \/ (failed_del \cup failed_add) # {})
                        /\ last_note' = note(failed_del \cup failed_add, done)
                 ELSE /\ last_note' = note({}, done)
                      /\ UNCHANGED <<labels, label_fault>>
        /\ UNCHANGED <<package, observe, details, head, lvars, ovars, svars>>

\* notify_build_status followed by run(), for the package of the issue
RunNotify(command, dist, build_status, repository_type, repository_url, build_log, additional_info, fault, max_failed) ==
    /\ n_notes < MaxNotes
    /\ run(command, dist, build_status, repository_type, repository_url,
           state_file_of(package, dist, repository_type),
           stable_state_file_of(package, dist),
           build_log, additional_info, fault, max_failed)
    /\ UNCHANGED progress

\* the distributions a package is notified for: every one for a component,
\* the template's own for a template, the host one for an ISO
dists_of(package_name) ==
    IF startswith(package_name, "qubes-template") THEN {VmDist}
    ELSE IF startswith(package_name, "iso") THEN {HostDist}
    ELSE Distributions

\* the channels a package is published to
channels_of(package_name) ==
    IF startswith(package_name, "qubes-template")
    THEN {"templates-itl", "templates-itl-testing", "templates-community",
          "templates-community-testing"}
    ELSE IF startswith(package_name, "iso") THEN {"iso-testing", "iso"}
    ELSE {"current", "current-testing", "security-testing", "unstable"}

\* the (command, status) pairs the orchestrator notifies
NoteKinds ==
    {<<"build", "building">>, <<"build", "built">>, <<"build", "failed">>,
     <<"upload", "uploaded">>, <<"upload", "failed">>}

\* The label operations of comment_issue succeed here; SpecComment has them
\* fail.
\* The faults that differ in the labels, the issues and the state files they
\* leave: get_issues and changelog leave what get_repo leaves and differ from
\* it only in the class of the exception that reaches the caller, and
\* create_comment leaves what none leaves but for the comment.
TrackerFaults == Faults \ {"get_issues", "changelog", "create_comment"}

NotifyNext ==
    \E kind \in NoteKinds, dist \in dists_of(package),
       repository_type \in channels_of(package) \cup {None},
       fault \in TrackerFaults :
        /\ kind[1] = "build" => repository_type = None
        /\ kind[1] = "upload" => repository_type # None
        /\ RunNotify(kind[1], dist, kind[2], repository_type, None, None, None,
                     fault, 0)

SpecNotify == NotifyInit /\ [][NotifyNext]_<<lvars, nvars, ovars, svars>>

(***************************************************************************)
(* get_package_changes on the histories of at most MaxCommits commits.     *)
(***************************************************************************)
\* the histories: no tag is given to two commits
Histories ==
    {log \in UNION {[1..n -> [tag : VersionTags \cup {None},
                               issues : {{}, {ReferencedIssue}}]] :
                        n \in 1..MaxCommits} :
        \A i, j \in 1..Len(log) :
            (i # j /\ log[i].tag # None) => log[i].tag # log[j].tag}

ChangelogInit ==
    /\ gpc_args \in
          {a \in [log : Histories,
                  previous_current_commit :
                      {None} \cup {commit_id(i) : i \in 1..MaxCommits}] :
              a.previous_current_commit # None =>
                  \E i \in 1..Len(a.log) : a.previous_current_commit = commit_id(i)}
    /\ gpc_done = FALSE
    /\ gpc_result = NoChanges
    /\ TextIdle
    /\ gl_args = NoArgs
    /\ gl_done = FALSE
    /\ gl_result = << <<>>, <<>> >>
    /\ package = ComponentPkg
    /\ observe = FALSE
    /\ details = NoDetails
    /\ NotifyIdle
    /\ cfg = NoCfg
    /\ OrchestratorIdle
    /\ LogIdle

CallGetPackageChanges ==
    /\ ~gpc_done
    /\ gpc_done' = TRUE
    /\ gpc_result' = get_package_changes(gpc_args.log, gpc_args.previous_current_commit)
    /\ UNCHANGED <<gpc_args, gl_args, gl_done, gl_result, tvars, nvars, ovars,
                   svars>>

ChangelogNext == CallGetPackageChanges

SpecChangelog == ChangelogInit /\ [][ChangelogNext]_<<lvars, nvars, ovars, svars>>

(***************************************************************************)
(* SpecText: one call of get_log_file_from_qubesbuilder_buildlog on an     *)
(* output of the child, or of format_additional_info on a base message and *)
(* a tail.                                                                 *)
(***************************************************************************)
\* lines the child can print, as printed (raw), with what the line is
\* once stripped and whether that is a log path: text ending in a
\* non-blank character, "/log_", and non-blank characters to the end (a
\* line with words before the path is one)
LineCases ==
    {[raw |-> "", line |-> "", path |-> FALSE],
     [raw |-> "see vm/log_x", line |-> "see vm/log_x", path |-> TRUE],
     [raw |-> " \t", line |-> "", path |-> FALSE],
     [raw |-> "testvm/log_2025-01-01", line |-> "testvm/log_2025-01-01",
      path |-> TRUE],
     [raw |-> "  vm2/log_b\t", line |-> "vm2/log_b", path |-> TRUE],
     [raw |-> "Request refused", line |-> "Request refused", path |-> FALSE],
     [raw |-> "vm/log_a b", line |-> "vm/log_a b", path |-> FALSE],
     [raw |-> "/log_x", line |-> "/log_x", path |-> FALSE],
     [raw |-> "vm/log_", line |-> "vm/log_", path |-> FALSE]}

\* the outputs of the child: up to MaxLines lines, the last one with or
\* without its newline
RECURSIVE SeqsUpTo(_, _)
SeqsUpTo(S, n) ==
    IF n = 0 THEN {<<>>}
    ELSE SeqsUpTo(S, n - 1)
            \cup {Append(q, x) : q \in {r \in SeqsUpTo(S, n - 1) : Len(r) = n - 1},
                                 x \in S}

ParseInputs ==
    {[fn |-> "parse", lines |-> q, newline |-> b] :
        q \in SeqsUpTo(LineCases, MaxLines), b \in BOOLEAN}

\* the text of an output of the child
stdout_of(a) ==
    JoinLines([k \in DOMAIN a.lines |-> a.lines[k].raw])
        \o (IF a.newline THEN "\n" ELSE "")

\* base messages, as given (raw) and stripped
BaseCases ==
    {[raw |-> None, txt |-> ""], [raw |-> "", txt |-> ""],
     [raw |-> " \n", txt |-> ""],
     [raw |-> " Auto Build failed ", txt |-> "Auto Build failed"]}

\* tails: newlines, a body of up to MaxTailChars + 2 characters without
\* newlines at its ends, newlines; or no tail at all
TailBodies == {SubSeq("abcdefghij", 1, n) : n \in 0..(MaxTailChars + 2)}

TailCases ==
    {[given |-> TRUE, pre |-> a, body |-> b, post |-> c] :
        a \in {"", "\n"}, b \in TailBodies, c \in {"", "\n"}}
    \cup {[given |-> FALSE, pre |-> "", body |-> "", post |-> ""]}

tail_of(t) == IF t.given THEN t.pre \o t.body \o t.post ELSE None

FormatInputs ==
    {[fn |-> "format", base |-> b, tail |-> t, max_chars |-> m] :
        b \in BaseCases, t \in TailCases, m \in 0..MaxTailChars}

TextInit ==
    /\ text_args \in ParseInputs \cup FormatInputs
    /\ text_done = FALSE
    /\ text_result = None
    /\ gl_args = NoArgs
    /\ gl_done = FALSE
    /\ gl_result = << <<>>, <<>> >>
    /\ gpc_args = NoHistory
    /\ gpc_done = FALSE
    /\ gpc_result = NoChanges
    /\ package = ComponentPkg
    /\ observe = FALSE
    /\ details = NoDetails
    /\ NotifyIdle
    /\ cfg = NoCfg
    /\ OrchestratorIdle
    /\ LogIdle

CallGetLogFile ==
    /\ ~text_done /\ text_args.fn = "parse"
    /\ text_done' = TRUE
    /\ text_result' =
          get_log_file_from_qubesbuilder_buildlog(
              stripped_lines(stdout_of(text_args)))
    /\ UNCHANGED <<text_args, gl_args, gl_done, gl_result, gpc_args, gpc_done,
                   gpc_result, nvars, ovars, svars>>

CallFormatAdditionalInfo ==
    /\ ~text_done /\ text_args.fn = "format"
    /\ text_done' = TRUE
    /\ text_result' =
          format_additional_info_max(text_args.base.raw, tail_of(text_args.tail),
                                     text_args.max_chars)
    /\ UNCHANGED <<text_args, gl_args, gl_done, gl_result, gpc_args, gpc_done,
                   gpc_result, nvars, ovars, svars>>

TextNext == CallGetLogFile \/ CallFormatAdditionalInfo

SpecText == TextInit /\ [][TextNext]_<<lvars, nvars, ovars, svars>>

(***************************************************************************)
(* The report issue of one target when the tracker refuses the comment or  *)
(* label operations of a report.                                           *)
(***************************************************************************)
CommentFaults == {"none", "create_comment"}

CommentInit ==
    /\ package \in Packages
    /\ observe = FALSE
    /\ details = NoDetails
    /\ NotifyIdle
    /\ LabelsIdle
    /\ cfg = NoCfg
    /\ OrchestratorIdle
    /\ LogIdle

CommentNext ==
    \E kind \in NoteKinds, dist \in dists_of(package),
       repository_type \in channels_of(package) \cup {None},
       fault \in CommentFaults :
        /\ kind[1] = "build" => repository_type = None
        /\ kind[1] = "upload" => repository_type # None
        /\ n_notes > 0 => dist = last_note.dist
        /\ RunNotify(kind[1], dist, kind[2], repository_type, None, None, None,
                     fault, MaxFailedOps)

SpecComment == CommentInit /\ [][CommentNext]_<<lvars, nvars, ovars, svars>>

(***************************************************************************)
(* The state files: the notifications of one distribution of one package   *)
(* while commits are added to its sources.                                 *)
(***************************************************************************)
StoreFaults == {"none", "closed_issues"}

StoreInit ==
    /\ package \in Packages
    /\ observe = FALSE
    /\ details = NoDetails
    /\ NotifyIdle
    /\ LabelsIdle
    /\ cfg = NoCfg
    /\ OrchestratorIdle
    /\ LogIdle

StoreNotify ==
    \E kind \in NoteKinds, dist \in dists_of(package),
       repository_type \in channels_of(package) \cup {None},
       fault \in StoreFaults :
        /\ kind[1] = "build" => repository_type = None
        /\ kind[1] = "upload" => repository_type # None
        /\ n_notes > 0 => dist = last_note.dist
        /\ RunNotify(kind[1], dist, kind[2], repository_type, None, None, None,
                     fault, 0)

\* a commit is added to the sources
Commit ==
    /\ commit_index(head) < Len(Commits)
    /\ head' = Commits[commit_index(head) + 1]
    /\ UNCHANGED <<package, issue_open, labels, prev_labels, last_note,
                   last_delta, label_fault, n_notes, n_created, observe,
                   details, comments, history, state_store, progress,
                   closing>>
    /\ UNCHANGED <<lvars, ovars, svars>>

StoreNext == StoreNotify \/ Commit

SpecStore == StoreInit /\ [][StoreNext]_<<lvars, nvars, ovars, svars>>

(***************************************************************************)
(* The report issue of a component built for several distributions: the   *)
(* notifications of the distributions interleave on one issue, every       *)
(* tracker operation succeeding.                                           *)
(***************************************************************************)
\* the notifications of a distribution that builds and uploads to
\* current-testing without a failure
BuildScript ==
    << <<"build", "building", None>>, <<"build", "built", None>>,
       <<"upload", "uploaded", "current-testing">> >>

OffScript == Len(BuildScript) + 1

SharedInit ==
    /\ package = ComponentPkg
    /\ observe = FALSE
    /\ details = NoDetails
    /\ NotifyIdle
    /\ LabelsIdle
    /\ cfg = NoCfg
    /\ OrchestratorIdle
    /\ LogIdle

\* the notifications of a component that is built, uploaded to
\* current-testing and promoted
SharedKinds ==
    {<<"build", "building", None>>, <<"build", "built", None>>,
     <<"build", "failed", None>>, <<"upload", "uploaded", "current-testing">>,
     <<"upload", "uploaded", "current">>}

SharedNext ==
    \E kind \in SharedKinds, dist \in Distributions :
        /\ n_notes < MaxNotes + Len(BuildScript)
        /\ run(kind[1], dist, kind[2], kind[3], None,
               state_file_of(package, dist, kind[3]),
               stable_state_file_of(package, dist), None, None, "none", 0)
        /\ progress' =
              [progress EXCEPT ![dist] =
                  IF @ < Len(BuildScript)
                     /\ BuildScript[@ + 1] = kind
                  THEN @ + 1
                  ELSE OffScript]

SpecShared == SharedInit /\ [][SharedNext]_<<lvars, nvars, ovars, svars>>

(***************************************************************************)
(* The report issue of one target: the notifications of one distribution   *)
(* of one package, every tracker operation succeeding, with the comments   *)
(* recorded.                                                               *)
(***************************************************************************)
TailText == "boom"
BuildLogUrl == get_build_log_url(FALSE, "fepitre-qubes/log_20250101")
IsoUrl == "https://qubes.example/iso/"

\* the build_log, additional_info and repository_url a target is notified with
ReportDetails ==
    [build_log : {None, BuildLogUrl},
     additional_info : {None, format_additional_info(None, TailText)},
     repository_url : {None, IsoUrl}]

ReportInit ==
    /\ package \in Packages
    /\ observe = TRUE
    /\ details \in ReportDetails
    /\ details.repository_url # None => startswith(package, "iso")
    /\ NotifyIdle
    /\ LabelsIdle
    /\ cfg = NoCfg
    /\ OrchestratorIdle
    /\ LogIdle

ReportNext ==
    \E kind \in NoteKinds, dist \in dists_of(package),
       repository_type \in channels_of(package) \cup {None} :
        /\ kind[1] = "build" => repository_type = None
        /\ kind[1] = "upload" => repository_type # None
        /\ n_notes > 0 => dist = last_note.dist
        /\ RunNotify(kind[1], dist, kind[2], repository_type,
                     details.repository_url, details.build_log,
                     details.additional_info, "none", 0)

SpecReport == ReportInit /\ [][ReportNext]_<<lvars, nvars, ovars, svars>>

(***************************************************************************)
(* Spec: one invocation of main().                                         *)
(***************************************************************************)
\* commit_sha is the commit or the template version an upload references,
\* template_timestamp the timestamp of the command line, timestamp_file the
\* timestamp in the artifact file of the template (None: no such file)
Configs ==
    {c \in [cmd : MainCommands, dry_run : BOOLEAN, local : BOOLEAN,
            api_key : BOOLEAN, n_targets : 1..MaxTargets, n_dists : 1..MaxDists,
            commit_sha : {None, Commits[1]}
                \cup {template_version_of(release_name) \o "-" \o t :
                         t \in Timestamps},
            template_timestamp : {None} \cup Timestamps,
            timestamp_file : {None} \cup TimestampTexts] :
        /\ c.cmd \notin {"build-component", "upload-component"} =>
              c.n_targets = 1 /\ c.n_dists = 1
        /\ c.commit_sha =
              CASE c.cmd = "upload-component" -> Commits[1]
                [] c.cmd = "upload-template" ->
                      template_version_of(release_name) \o "-"
                          \o c.template_timestamp
                [] OTHER -> None
        /\ c.cmd \in {"build-template", "upload-template"}
              <=> c.template_timestamp # None
        /\ c.cmd \notin {"build-template", "upload-template"}
              => c.timestamp_file = None}

Init ==
    /\ cfg \in Configs
    /\ OrchestratorIdle
    /\ package = ComponentPkg
    /\ observe = FALSE
    /\ details = NoDetails
    /\ NotifyIdle
    /\ LabelsIdle
    /\ LogIdle

IsBuild == cfg.cmd \in BuildCommands
CurStep == steps_of(cfg.cmd)[si]

Event(ev, name, stg, log, info, result) ==
    [ev |-> ev, name |-> name, stage |-> stg, log |-> log, info |-> info,
     result |-> result]

\* the notification counters of distribution d after a call of
\* notify_build_status with this status
Counted(d, status) ==
    [counts EXCEPT
        ![d].uploaded = @ + (IF status = "uploaded" THEN 1 ELSE 0),
        ![d].failed = @ + (IF status = "failed" THEN 1 ELSE 0)]

\* the ways a call of notify_build_status can end: the result of
\* notify_github for each possible fault, or the alarm going off inside it
NotifyOutcomes(command, status) ==
    {[result |-> notify_github(cfg.api_key, cfg.dry_run, f), fault |-> f] :
        f \in IF cfg.api_key /\ ~cfg.dry_run
              THEN possible_faults(command, repository_publish_of(cfg.cmd),
                                   status, package_of(cfg.cmd), FALSE)
              ELSE {"none"}}
    \cup (IF alarm = "armed"
          THEN {[result |-> "timeout", fault |-> "none"]}
          ELSE {})

NotifyRaises(o) == o.result \in {"escape", "timeout"}

\* the exception a notification raises to build() / upload()
NotifyExc(o) ==
    IF o.result = "timeout"
    THEN Exc("TimeoutError", None, None, None)
    ELSE Exc("Exception", None, None, None)

\* notify_build_status(status, stage=command, log_file, additional_info)
\* for distribution d, ending as o
Notified(d, status, command, log_file, info, o) ==
    /\ trace' = Append(trace,
                       Event("notify", status, command,
                             build_log_of(cfg.local, log_file), info, o.result))
    /\ counts' = Counted(d, status)
    /\ last_fault' = o.fault
    /\ alarm' = IF o.result = "timeout" THEN "spent" ELSE alarm

\* the statement after the current one, or the end of the with block
Advance ==
    IF si < Len(steps_of(cfg.cmd))
    THEN si' = si + 1 /\ pc' = "step"
    ELSE si' = si /\ pc' = "leave"

\* ---- main(): the loop over cli_list --------------------------------------
MainStartTarget ==
    /\ pc = "main" /\ ti <= cfg.n_targets
    /\ pc' = CASE cfg.cmd = "build-component" -> "fetch"
               [] cfg.cmd = "upload-component" -> "commit_check"
               [] cfg.cmd = "build-template" -> "timestamp_guard"
               [] cfg.cmd = "upload-template" -> "artifact_check"
               [] cfg.cmd = "build-iso" -> "dist_loop"
    /\ UNCHANGED <<cfg, mismatched, ti, di, si, stage, alarm, exc, build_log_file,
                   openqa_info, built_for_dist, trace, counts, mwl,
                   last_fault, oi, exit_code, nvars, lvars, svars>>

MainExit ==
    /\ pc = "main" /\ ti > cfg.n_targets
    /\ pc' = "exit"
    /\ exit_code' = 0
    /\ UNCHANGED <<cfg, mismatched, ti, di, si, stage, alarm, exc, build_log_file,
                   openqa_info, built_for_dist, trace, counts, mwl, last_fault,
                   oi, nvars, lvars, svars>>

\* ---- make_with_log of one stage group ------------------------------------
\* the ways a call of make_with_log can go: the stage function is called
\* ("run"), something before or after it raises ("setup"), or the alarm
\* goes off outside the stage function ("timeout")
StageOutcomes ==
    (IF cfg.dry_run
     THEN {[how |-> "run", func |-> "not_called", readable |-> TRUE,
            child |-> NoChild, class |-> None]}
     ELSE {[how |-> "run", func |-> f, readable |-> r, child |-> c,
            class |-> None] :
              f \in {x \in FuncOutcomes : x = "TimeoutError" => alarm = "armed"},
              r \in IF cfg.local THEN BOOLEAN ELSE {TRUE},
              c \in IF cfg.local THEN {NoChild}
                    ELSE ChildOutcomes}
          \cup {[how |-> "setup", func |-> "not_called", readable |-> TRUE,
                 child |-> NoChild, class |-> k] :
                   k \in {"QubesBuilderError", "OSError"}})
    \cup (IF alarm = "armed"
          THEN {[how |-> "timeout", func |-> "not_called", readable |-> TRUE,
                 child |-> NoChild, class |-> "TimeoutError"]}
          ELSE {})

StageResult(o) ==
    IF o.how = "run"
    THEN make_with_log(cfg.dry_run, cfg.local, o.func, o.readable, o.child)
    ELSE RaisedAutoActionError(None, None, None)

\* the exception a call of make_with_log raises, if any
StageExc(o) ==
    IF o.how = "run"
    THEN LET r == StageResult(o)
         IN  IF r.kind = "raise"
             THEN Exc("AutoActionError", r.msg, r.log_file, r.tail)
             ELSE NoExc
    ELSE Exc(o.class, None, None, None)

\* make_with_log for the statement named step, going as o
Staged(step, o) ==
    /\ trace' = Append(trace,
                       Event("stage", step, o.func,
                             IF StageExc(o) = NoExc
                             THEN StageResult(o).value
                             ELSE StageExc(o).log_file,
                             None,
                             IF StageExc(o) = NoExc THEN "return" ELSE "raise"))
    /\ mwl' = IF o.how = "run"
              THEN [step |-> step, func |-> o.func, local |-> cfg.local,
                    readable |-> o.readable, child |-> o.child,
                    result |-> StageResult(o)]
              ELSE mwl
    /\ alarm' = IF o.how = "timeout" \/ o.func = "TimeoutError"
                THEN "spent" ELSE alarm
    /\ exc' = StageExc(o)

\* AutoAction.build: the fetch stage, before the loop over the distributions
Fetch ==
    /\ pc = "fetch"
    /\ \E o \in StageOutcomes :
        /\ Staged("stage_fetch", o)
        /\ pc' = IF StageExc(o) = NoExc THEN "dist_loop" ELSE "raised"
    /\ UNCHANGED <<cfg, mismatched, ti, di, si, stage, build_log_file, openqa_info,
                   built_for_dist, counts, last_fault, oi, exit_code,
                   nvars, lvars, svars>>

\* AutoAction.upload: the commit-mismatch guard against the commit of the
\* sources of this target
CommitCheck ==
    /\ pc = "commit_check"
    /\ \E actual_commit_sha \in Elems(Commits) :
        IF commit_mismatch_guard(cfg.commit_sha, actual_commit_sha) = "go"
        THEN pc' = "dist_loop" /\ UNCHANGED <<exc, mismatched>>
        ELSE /\ pc' = "raised"
             /\ exc' = Exc("CommitMismatchError", None, None, None)
             /\ mismatched' = mismatched \cup {ti}
    /\ UNCHANGED <<cfg, ti, di, si, stage, alarm, build_log_file, openqa_info,
                   built_for_dist, trace, counts, mwl, last_fault, oi,
                   exit_code, nvars, lvars, svars>>

\* AutoActionTemplate.build: the newer-already-built guard
TimestampGuard ==
    /\ pc = "timestamp_guard"
    /\ LET found == newer_template_guard(cfg.timestamp_file,
                                         cfg.template_timestamp)
       IN  CASE found = "go" -> pc' = "dist_loop" /\ exc' = exc
             [] found = "return" -> pc' = "target_done" /\ exc' = exc
             [] found = "raise" ->
                   /\ pc' = "raised"
                   /\ exc' = Exc("AutoActionError", None, None, None)
    /\ UNCHANGED <<cfg, mismatched, ti, di, si, stage, alarm, build_log_file, openqa_info,
                   built_for_dist, trace, counts, mwl, last_fault, oi,
                   exit_code, nvars, lvars, svars>>

\* AutoActionTemplate.upload: the upload artifact and its timestamp
ArtifactCheck ==
    /\ pc = "artifact_check"
    /\ IF upload_artifact_guard(cfg.timestamp_file, cfg.commit_sha,
                                template_version_of(release_name)) = "go"
       THEN pc' = "dist_loop" /\ exc' = exc
       ELSE /\ pc' = "raised"
            /\ exc' = Exc("AutoActionError", None, None, None)
    /\ UNCHANGED <<cfg, mismatched, ti, di, si, stage, alarm, build_log_file, openqa_info,
                   built_for_dist, trace, counts, mwl, last_fault, oi,
                   exit_code, nvars, lvars, svars>>

\* the head of the loop over the distributions: a distribution is skipped
\* (release status) or its stage group is entered under timeout(); a
\* template or an ISO has one stage group
DistLoop ==
    /\ pc = "dist_loop" /\ di <= cfg.n_dists
    /\ \E go \in BOOLEAN :
        /\ ~go => cfg.cmd \in {"build-component", "upload-component"}
        /\ ~go => ~(cfg.dry_run /\ IsBuild)
        /\ IF go
           THEN /\ pc' = "step"
                /\ si' = 1
                /\ stage' = "build"
                /\ alarm' = "armed"
                /\ trace' = <<>>
                /\ counts' = [counts EXCEPT ![di].started = TRUE]
                /\ di' = di
           ELSE /\ di' = di + 1
                /\ UNCHANGED <<pc, si, stage, alarm, trace, counts>>
    /\ UNCHANGED <<cfg, mismatched, ti, exc, build_log_file, openqa_info, built_for_dist,
                   mwl, last_fault, oi, exit_code, nvars, lvars, svars>>

\* build() / upload() returns
TargetReturn ==
    /\ pc = "dist_loop" /\ di > cfg.n_dists
    /\ pc' = "target_done"
    /\ UNCHANGED <<cfg, mismatched, ti, di, si, stage, alarm, exc, build_log_file,
                   openqa_info, built_for_dist, trace, counts, mwl, last_fault,
                   oi, exit_code, nvars, lvars, svars>>

\* main() goes on with the next element of cli_list, an action object of
\* its own
NextTarget ==
    /\ pc = "target_done"
    /\ pc' = "main"
    /\ ti' = ti + 1
    /\ di' = 1
    /\ si' = 1
    /\ stage' = "build"
    /\ build_log_file' = None
    /\ openqa_info' = None
    /\ built_for_dist' = <<>>
    /\ trace' = <<>>
    /\ counts' = [d \in 1..cfg.n_dists |-> NoCounts]
    /\ mwl' = NoCall
    /\ last_fault' = "none"
    /\ UNCHANGED <<cfg, mismatched, alarm, exc, oi, exit_code, nvars, lvars, svars>>

\* ---- the statements of the try block -------------------------------------
\* a notification statement of the try block
NotifyStep(status, command, log_file, info) ==
    \E o \in NotifyOutcomes(command, status) :
        /\ Notified(di, status, command, log_file, info, o)
        /\ IF NotifyRaises(o)
           THEN /\ exc' = NotifyExc(o)
                /\ pc' = "handler"
                /\ UNCHANGED <<si, stage, built_for_dist>>
           ELSE /\ exc' = exc
                /\ Advance
                \* "stage = upload" follows the built notification
                /\ stage' = IF status = "built" THEN "upload" ELSE stage
                /\ UNCHANGED built_for_dist

NotifyBuilding ==
    /\ pc = "step" /\ CurStep = "notify_building"
    /\ NotifyStep("building", "build", None, None)
    /\ UNCHANGED <<cfg, mismatched, ti, di, build_log_file, openqa_info, mwl, oi,
                   exit_code, nvars, lvars, svars>>

NotifyBuilt ==
    /\ pc = "step" /\ CurStep = "notify_built"
    /\ NotifyStep("built", stage, build_log_file, None)
    /\ UNCHANGED <<cfg, mismatched, ti, di, build_log_file, openqa_info, mwl, oi,
                   exit_code, nvars, lvars, svars>>

\* the log file of the uploaded notification: none in build() of a component
uploaded_log_file ==
    IF cfg.cmd = "build-component" THEN None ELSE build_log_file

NotifyUploaded ==
    /\ pc = "step" /\ CurStep = "notify_uploaded"
    /\ \E o \in NotifyOutcomes("upload", "uploaded") :
        /\ trace' = Append(trace,
                           Event("notify", "uploaded",
                                 IF IsBuild THEN stage ELSE "upload",
                                 build_log_of(cfg.local, uploaded_log_file),
                                 openqa_info, o.result))
        /\ counts' = [Counted(di, "uploaded") EXCEPT
                         ![di].completed = ~NotifyRaises(o)]
        /\ last_fault' = o.fault
        /\ alarm' = IF o.result = "timeout" THEN "spent" ELSE alarm
        /\ IF NotifyRaises(o)
           THEN /\ exc' = NotifyExc(o)
                /\ pc' = "handler"
                /\ UNCHANGED <<si, built_for_dist>>
           ELSE /\ exc' = exc
                /\ Advance
                \* build() of a component records the distribution
                /\ built_for_dist' =
                      IF cfg.cmd = "build-component"
                      THEN Append(built_for_dist, DistObject(di))
                      ELSE built_for_dist
    /\ UNCHANGED <<cfg, mismatched, ti, di, stage, build_log_file, openqa_info, mwl, oi,
                   exit_code, nvars, lvars, svars>>

\* a make_with_log statement of the try block
StageStep(step, keeps_log) ==
    \E o \in StageOutcomes :
        /\ Staged(step, o)
        /\ IF StageExc(o) = NoExc
           THEN /\ Advance
                /\ build_log_file' =
                      IF keeps_log THEN StageResult(o).value ELSE build_log_file
           ELSE /\ pc' = "handler"
                /\ UNCHANGED <<si, build_log_file>>

StageFetch ==
    /\ pc = "step" /\ CurStep = "stage_fetch"
    /\ StageStep("stage_fetch", FALSE)
    /\ UNCHANGED <<cfg, mismatched, ti, di, stage, openqa_info, built_for_dist, counts,
                   last_fault, oi, exit_code, nvars, lvars, svars>>

StageBuild ==
    /\ pc = "step" /\ CurStep = "stage_build"
    /\ StageStep("stage_build", TRUE)
    /\ UNCHANGED <<cfg, mismatched, ti, di, stage, openqa_info, built_for_dist, counts,
                   last_fault, oi, exit_code, nvars, lvars, svars>>

StageUpload ==
    /\ pc = "step" /\ CurStep = "stage_upload"
    /\ StageStep("stage_upload", FALSE)
    /\ UNCHANGED <<cfg, mismatched, ti, di, stage, openqa_info, built_for_dist, counts,
                   last_fault, oi, exit_code, nvars, lvars, svars>>

StagePublish ==
    /\ pc = "step" /\ CurStep = "stage_publish"
    /\ StageStep("stage_publish", TRUE)
    /\ UNCHANGED <<cfg, mismatched, ti, di, stage, openqa_info, built_for_dist, counts,
                   last_fault, oi, exit_code, nvars, lvars, svars>>

\* AutoActionISO.trigger_openqa
TriggerOpenQA ==
    /\ pc = "step" /\ CurStep = "trigger_openqa"
    /\ \E r \in {"none", "posted", "timeout"} :
        /\ r = "timeout" => alarm = "armed"
        /\ r = "posted" => ~cfg.dry_run
        /\ IF r = "timeout"
           THEN /\ exc' = Exc("TimeoutError", None, None, None)
                /\ alarm' = "spent"
                /\ pc' = "handler"
                /\ UNCHANGED <<si, openqa_info>>
           ELSE /\ openqa_info' = IF r = "posted" THEN "see openQA" ELSE None
                /\ Advance
                /\ UNCHANGED <<exc, alarm>>
    /\ UNCHANGED <<cfg, mismatched, ti, di, stage, build_log_file, built_for_dist, trace,
                   counts, mwl, last_fault, oi, exit_code, nvars, lvars, svars>>

\* ---- the except clauses of build() / upload() ---------------------------
\* the failed notification of an except clause; an exception it raises
\* leaves the with block
HandlerNotify(command, log_file, info) ==
    \E o \in NotifyOutcomes(command, "failed") :
        /\ Notified(di, "failed", command, log_file, info, o)
        /\ exc' = IF NotifyRaises(o) THEN NotifyExc(o) ELSE NoExc
        /\ pc' = "leave"

\* except AutoActionError: build() reports the message and the tail,
\* upload() the log file alone
HandleAutoActionError ==
    /\ pc = "handler"
    /\ handler_for(cfg.cmd, exc.class) = "AutoActionError"
    /\ IF IsBuild
       THEN HandlerNotify(stage, exc.log_file,
                          format_additional_info(
                              IF exc.msg = None THEN "Auto Build failed" ELSE exc.msg,
                              exc.tail))
       ELSE HandlerNotify("upload", exc.log_file, None)
    /\ UNCHANGED <<cfg, mismatched, ti, di, si, stage, build_log_file, openqa_info,
                   built_for_dist, mwl, oi, exit_code, nvars, lvars, svars>>

\* except QubesBuilderError (build() only)
HandleQubesBuilderError ==
    /\ pc = "handler"
    /\ handler_for(cfg.cmd, exc.class) = "QubesBuilderError"
    /\ HandlerNotify(stage, None,
                     format_additional_info(
                         "Auto Build failed: a builder error occurred", None))
    /\ UNCHANGED <<cfg, mismatched, ti, di, si, stage, build_log_file, openqa_info,
                   built_for_dist, mwl, oi, exit_code, nvars, lvars, svars>>

\* except TimeoutError: raise AutoActionTimeout
HandleTimeoutError ==
    /\ pc = "handler"
    /\ handler_for(cfg.cmd, exc.class) = "TimeoutError"
    /\ exc' = Exc("AutoActionTimeout", None, None, None)
    /\ pc' = "leave"
    /\ UNCHANGED <<cfg, mismatched, ti, di, si, stage, alarm, build_log_file, openqa_info,
                   built_for_dist, trace, counts, mwl, last_fault, oi,
                   exit_code, nvars, lvars, svars>>

\* except Exception: the notification has the default stage, "build"
HandleException ==
    /\ pc = "handler"
    /\ handler_for(cfg.cmd, exc.class) = "Exception"
    /\ HandlerNotify("build", None, "Internal error: '" \o exc.class \o ": '")
    /\ UNCHANGED <<cfg, mismatched, ti, di, si, stage, build_log_file, openqa_info,
                   built_for_dist, mwl, oi, exit_code, nvars, lvars, svars>>

\* the finally clause of timeout(): the alarm is cancelled; build() goes on
\* with the next distribution unless an exception is propagating.  The
\* locals of the iteration are dead from here on (each is assigned again
\* before it is read), and the record of the stage group ends with it.
LeaveTimeout ==
    /\ pc = "leave"
    /\ alarm' = "off"
    /\ IF exc = NoExc
       THEN pc' = "dist_loop" /\ di' = di + 1
       ELSE pc' = "raised" /\ di' = di
    /\ si' = 1
    /\ stage' = "build"
    /\ build_log_file' = None
    /\ openqa_info' = None
    /\ trace' = <<>>
    /\ mwl' = NoCall
    /\ last_fault' = "none"
    /\ UNCHANGED <<cfg, mismatched, ti, exc, built_for_dist, counts, oi, exit_code,
                   nvars, lvars, svars>>

\* ---- main(): the except clauses around build() / upload() ---------------
\* except CommitMismatchError: a warning, then the next target
MainCatchMismatch ==
    /\ pc = "raised" /\ main_handler_for(exc.class) = "warning"
    /\ exc' = NoExc
    /\ pc' = "target_done"
    /\ UNCHANGED <<cfg, mismatched, ti, di, si, stage, alarm, build_log_file, openqa_info,
                   built_for_dist, trace, counts, mwl, last_fault, oi,
                   exit_code, nvars, lvars, svars>>

\* except AutoActionTimeout: notify_build_status_on_timeout is called
MainCatchTimeout ==
    /\ pc = "raised" /\ main_handler_for(exc.class) = "on_timeout"
    /\ pc' = "on_timeout"
    /\ oi' = 1
    /\ UNCHANGED <<cfg, mismatched, ti, di, si, stage, alarm, exc, build_log_file,
                   openqa_info, built_for_dist, trace, counts, mwl, last_fault,
                   exit_code, nvars, lvars, svars>>

\* the distributions notify_build_status_on_timeout reports as failed: a
\* template or an ISO is always reported
reported_on_timeout(d) ==
    IF cfg.cmd \in {"build-component", "upload-component"}
    THEN not_in_built_for_dist(d, built_for_dist)
    ELSE TRUE

\* one iteration of the loop of notify_build_status_on_timeout
NotifyOnTimeout ==
    /\ pc = "on_timeout" /\ oi <= cfg.n_dists
    /\ IF reported_on_timeout(oi)
       THEN \E o \in NotifyOutcomes("build", "failed") :
              /\ trace' = Append(trace,
                                 Event("notify", "failed", "build", None,
                                       "Timeout", o.result))
              /\ counts' = [Counted(oi, "failed") EXCEPT ![oi].on_timeout = @ + 1]
              /\ last_fault' = o.fault
              /\ IF NotifyRaises(o)
                 THEN /\ exc' = NotifyExc(o)
                      /\ pc' = "exit"
                      /\ exit_code' = 1
                      /\ oi' = oi
                 ELSE /\ oi' = oi + 1
                      /\ UNCHANGED <<exc, pc, exit_code>>
       ELSE /\ oi' = oi + 1
            /\ UNCHANGED <<trace, counts, last_fault, exc, pc, exit_code>>
    /\ UNCHANGED <<cfg, mismatched, ti, di, si, stage, alarm, build_log_file, openqa_info,
                   built_for_dist, mwl, nvars, lvars, svars>>

\* raise AutoActionTimeout(str(autobuild_exc)): the process exits with 1
MainReraiseTimeout ==
    /\ pc = "on_timeout" /\ oi > cfg.n_dists
    /\ pc' = "exit"
    /\ exit_code' = 1
    /\ UNCHANGED <<cfg, mismatched, ti, di, si, stage, alarm, exc, build_log_file,
                   openqa_info, built_for_dist, trace, counts, mwl, last_fault,
                   oi, nvars, lvars, svars>>

\* any other exception leaves main(): traceback, exit status 1
MainUncaught ==
    /\ pc = "raised"
    /\ main_handler_for(exc.class) = "uncaught"
    /\ pc' = "exit"
    /\ exit_code' = 1
    /\ UNCHANGED <<cfg, mismatched, ti, di, si, stage, alarm, exc, build_log_file,
                   openqa_info, built_for_dist, trace, counts, mwl, last_fault,
                   oi, nvars, lvars, svars>>

Next ==
    \/ MainStartTarget
    \/ MainExit
    \/ Fetch
    \/ CommitCheck
    \/ TimestampGuard
    \/ ArtifactCheck
    \/ DistLoop
    \/ TargetReturn
    \/ NextTarget
    \/ NotifyBuilding
    \/ StageFetch
    \/ StageBuild
    \/ NotifyBuilt
    \/ StageUpload
    \/ StagePublish
    \/ TriggerOpenQA
    \/ NotifyUploaded
    \/ HandleAutoActionError
    \/ HandleQubesBuilderError
    \/ HandleTimeoutError
    \/ HandleException
    \/ LeaveTimeout
    \/ MainCatchMismatch
    \/ MainCatchTimeout
    \/ NotifyOnTimeout
    \/ MainReraiseTimeout
    \/ MainUncaught

vars == <<ovars, nvars, lvars, svars>>

Spec == Init /\ [][Next]_vars

(***************************************************************************)
(* SpecLog: records logged while the SafeWrapper and the tail buffer are   *)
(* handlers of the logger, as during make_with_log_qrexec.                 *)
(***************************************************************************)
LogLines == {"a", "b"}

LogInit ==
    /\ sink \in {[NewSink EXCEPT !.parent = b] : b \in BOOLEAN}
    /\ capacity \in 1..MaxCapacity
    /\ buffer = <<>>
    /\ inserted = <<>>
    /\ stderr_added = FALSE
    /\ sink_log = NoSinkLog
    /\ CaptureIdle
    /\ package = ComponentPkg
    /\ observe = FALSE
    /\ details = NoDetails
    /\ NotifyIdle
    /\ LabelsIdle
    /\ cfg = NoCfg
    /\ OrchestratorIdle

\* log.debug(line): the logger calls emit of the wrapper if it is still one
\* of its handlers, then emit of the tail buffer; an exception of the first
\* handler reaches the caller before the second handler is called
LogRecord(line, inner) ==
    LET r == IF sink.attached
             THEN SafeWrapper_emit(sink, inner)
             ELSE [sink |-> sink, called |-> FALSE, raised |-> FALSE]
    IN  /\ ~stderr_added
        /\ Len(inserted) < MaxRecords
        /\ sink' = r.sink
        /\ sink_log' =
              [broken |-> sink_log.broken \/ (r.called /\ inner = "BrokenPipeError"),
               late_emits |-> sink_log.late_emits
                                + (IF sink_log.broken /\ sink.attached
                                   THEN 1 ELSE 0),
               late_calls |-> sink_log.late_calls
                                + (IF sink_log.broken /\ r.called THEN 1 ELSE 0),
               raised |-> sink_log.raised
                            \/ (r.raised /\ (sink_log.broken
                                             \/ inner = "BrokenPipeError"))]
        /\ IF r.raised
           THEN UNCHANGED <<buffer, inserted>>
           ELSE /\ buffer' = deque_append(buffer, line, capacity)
                /\ inserted' = Append(inserted, line)
        /\ UNCHANGED <<capacity, stderr_added, cvars, nvars, lvars, ovars>>

\* tail.buffer.append("> error: ..."): the stderr of the child, appended by
\* make_with_log_qrexec after the handlers are detached
AppendStderr ==
    /\ ~stderr_added
    /\ stderr_added' = TRUE
    /\ buffer' = deque_append(buffer, "> error", capacity)
    /\ inserted' = Append(inserted, "> error")
    /\ UNCHANGED <<sink, capacity, sink_log, cvars, nvars, lvars, ovars>>

LogNext ==
    \/ \E line \in LogLines, inner \in InnerOutcomes : LogRecord(line, inner)
    \/ AppendStderr

SpecLog == LogInit /\ [][LogNext]_<<lvars, nvars, ovars, svars>>

(***************************************************************************)
(* SpecCapture: one call of make_with_log, statement by statement, with    *)
(* the handlers it attaches to the shared logger.                          *)
(***************************************************************************)
\* what display_head_info does between addHandler and the stage function:
\* it returns, or an exception other than ComponentError leaves it (the
\* deadline expiring inside it included)
HeadOutcomes == {"ok", "raise"}

\* Logger.addHandler and Logger.removeHandler on the set of handlers
addHandler(hs, h) == hs \cup {h}
removeHandler(hs, h) == hs \ {h}

\* the changes of the handlers of the logger that took effect
HandlerChanges(before, after, order) ==
    SelectSeq(order, LAMBDA c :
        \/ c[1] = "add" /\ c[2] \notin before /\ c[2] \in after
        \/ c[1] = "remove" /\ c[2] \in before /\ c[2] \notin after)

\* what make_with_log attaches before it logs anything
attach_handlers(local, hs) ==
    IF local THEN addHandler(hs, "file")
    ELSE addHandler(addHandler(hs, "qrexec"), "tail")

\* a finally clause that forgets the wrapper of the streaming sink
finally_handlers_keeps_wrapper(local, hs) ==
    IF local THEN removeHandler(hs, "file") ELSE removeHandler(hs, "tail")

\* the finally clause of make_with_log_local / make_with_log_qrexec
finally_handlers(local, hs) ==
    IF local THEN removeHandler(hs, "file")
    ELSE removeHandler(removeHandler(hs, "tail"), "qrexec")

\* log.debug(line) during make_with_log: the wrapper of the streaming sink
\* is called if it is attached, then the tail buffer if it is attached and
\* the wrapper has not raised; the file handler never raises
Emitted(line, inner) ==
    IF "qrexec" \in attached
    THEN SafeWrapper_emit(sink, inner)
    ELSE [sink |-> sink, called |-> FALSE, raised |-> FALSE]

Emit(line, inner) ==
    LET r == Emitted(line, inner)
        after == IF r.sink.attached THEN attached
                 ELSE removeHandler(attached, "qrexec")
    IN  /\ sink' = r.sink
        /\ attached' = after
        /\ handler_log' = handler_log
              \o HandlerChanges(attached, after, << <<"remove", "qrexec">> >>)
        /\ IF ~r.raised /\ "tail" \in attached
           THEN /\ buffer' = deque_append(buffer, line, capacity)
                /\ inserted' = Append(inserted, line)
           ELSE UNCHANGED <<buffer, inserted>>

CaptureInit ==
    /\ sink = NewSink
    /\ buffer = <<>>
    /\ capacity = on_error_lines_to_report
    /\ inserted = <<>>
    /\ stderr_added = FALSE
    /\ sink_log = NoSinkLog
    /\ attached = {}
    /\ handler_log = <<>>
    /\ mpc = "call"
    /\ capture = NoCapture
    /\ package = ComponentPkg
    /\ observe = FALSE
    /\ details = NoDetails
    /\ NotifyIdle
    /\ LabelsIdle
    /\ cfg = NoCfg
    /\ OrchestratorIdle

\* make_with_log: nothing is attached in dry-run mode; otherwise the
\* handlers of the backend are created and attached
MwlCall(dry_run, local) ==
    /\ mpc = "call"
    /\ IF dry_run
       THEN /\ mpc' = "done"
            /\ capture' = [capture EXCEPT !.local = local, !.outcome = "return"]
            /\ UNCHANGED <<attached, handler_log>>
       ELSE /\ mpc' = "head"
            /\ capture' = [capture EXCEPT !.local = local]
            /\ attached' = attach_handlers(local, attached)
            /\ handler_log' = handler_log
                  \o HandlerChanges(attached, attach_handlers(local, attached),
                                    << <<"add", "file">>, <<"add", "qrexec">>,
                                       <<"add", "tail">> >>)
    /\ UNCHANGED <<sink, buffer, capacity, inserted, stderr_added, sink_log,
                   nvars, lvars, ovars>>

\* log.debug("> starting build with log") and display_head_info(args):
\* outside the try block in the local backend, inside it in the other
MwlHead(inner, shown) ==
    /\ mpc = "head"
    /\ Emit("> starting build with log", inner)
    /\ LET raised == Emitted("> starting build with log", inner).raised
                        \/ shown = "raise"
       IN  IF ~raised
           THEN mpc' = "func" /\ capture' = capture
           ELSE IF capture.local
           THEN /\ mpc' = "done"
                /\ capture' = [capture EXCEPT !.pending = "Exception",
                                              !.outcome = "Exception"]
           ELSE /\ mpc' = "finally"
                /\ capture' = [capture EXCEPT !.pending = "Exception"]
    /\ UNCHANGED <<capacity, stderr_added, sink_log, nvars, lvars, ovars>>

\* a record logged by the stage function; an exception of the wrapper
\* leaves the stage function
MwlLog(line, inner) ==
    /\ mpc = "func"
    /\ Len(inserted) < MaxRecords
    /\ Emit(line, inner)
    /\ IF Emitted(line, inner).raised
       THEN /\ mpc' = IF capture.local THEN "finally" ELSE "wait"
            /\ capture' = [capture EXCEPT !.func = "OSError"]
       ELSE UNCHANGED <<mpc, capture>>
    /\ UNCHANGED <<capacity, stderr_added, sink_log, nvars, lvars, ovars>>

\* func(*args, **kwargs) ends; log.debug("> done") follows when it returned
MwlFunc(outcome, inner) ==
    /\ mpc = "func"
    /\ IF outcome = "ok"
       THEN /\ Emit("> done", inner)
            /\ capture' = [capture EXCEPT !.func =
                              IF Emitted("> done", inner).raised
                              THEN "OSError" ELSE "ok"]
       ELSE /\ capture' = [capture EXCEPT !.func = outcome]
            /\ UNCHANGED <<sink, attached, handler_log, buffer, inserted>>
    /\ mpc' = IF capture.local THEN "finally" ELSE "wait"
    /\ UNCHANGED <<capacity, stderr_added, sink_log, nvars, lvars, ovars>>

\* make_with_log_qrexec: p.stdin.close(), p.wait() and the reads of the
\* output of the child; the deadline can expire while it waits
MwlWait(child, interrupted) ==
    /\ mpc = "wait"
    /\ child.pipe = "broken" <=> sink.disabled
    /\ capture' = [capture EXCEPT
                      !.child = child,
                      !.pending = IF interrupted THEN "TimeoutError" ELSE None]
    /\ mpc' = "finally"
    /\ UNCHANGED <<sink, buffer, capacity, inserted, stderr_added, sink_log,
                   attached, handler_log, nvars, lvars, ovars>>

\* the finally clause: the handlers are removed; the local backend then
\* returns or raises, the other one raises what is pending or goes on
MwlFinally(readable) ==
    /\ mpc = "finally"
    /\ attached' = finally_handlers(capture.local, attached)
    /\ handler_log' = handler_log
          \o HandlerChanges(attached, finally_handlers(capture.local, attached),
                            << <<"remove", "file">>, <<"remove", "tail">>,
                               <<"remove", "qrexec">> >>)
    /\ sink' = [sink EXCEPT !.attached =
                   "qrexec" \in finally_handlers(capture.local, attached)]
    /\ IF capture.local
       THEN /\ mpc' = "done"
            /\ capture' =
                  [capture EXCEPT
                      !.result = make_with_log_local(capture.func, readable),
                      !.outcome =
                          IF make_with_log_local(capture.func, readable).kind
                                = "raise"
                          THEN "AutoActionError" ELSE "return"]
       ELSE IF capture.pending # None
       THEN /\ mpc' = "done"
            /\ capture' = [capture EXCEPT !.outcome = capture.pending]
       ELSE /\ mpc' = "parse"
            /\ capture' = capture
    /\ UNCHANGED <<buffer, capacity, inserted, stderr_added, sink_log,
                   nvars, lvars, ovars>>

\* make_with_log_qrexec after the handlers are detached: the log file is
\* parsed from the output of the child, its stderr goes to the tail buffer,
\* and the call returns the log file or raises AutoActionError
MwlParse ==
    /\ mpc = "parse"
    /\ LET log_file == get_log_file_from_qubesbuilder_buildlog(capture.child.out)
           with_err == log_file = None /\ capture.child.err
           tail == IF with_err
                   THEN deque_append(buffer, "> error", capacity)
                   ELSE buffer
       IN  /\ buffer' = tail
           /\ stderr_added' = with_err
           /\ capture' =
                 [capture EXCEPT
                     !.result =
                         IF capture.func = "ok"
                         THEN Returned(log_file)
                         ELSE RaisedAutoActionError(
                                  error_message(capture.func), log_file,
                                  tail_text(tail, capacity)),
                     !.outcome = IF capture.func = "ok"
                                 THEN "return" ELSE "AutoActionError"]
    /\ mpc' = "done"
    /\ UNCHANGED <<sink, capacity, inserted, sink_log, attached, handler_log,
                   nvars, lvars, ovars>>

CaptureNext ==
    \/ \E dry_run \in BOOLEAN, local \in BOOLEAN : MwlCall(dry_run, local)
    \/ \E inner \in InnerOutcomes, shown \in HeadOutcomes : MwlHead(inner, shown)
    \/ \E line \in LogLines, inner \in InnerOutcomes : MwlLog(line, inner)
    \/ \E outcome \in FuncOutcomes, inner \in InnerOutcomes :
          MwlFunc(outcome, inner)
    \/ \E child \in ChildOutcomes, interrupted \in BOOLEAN :
          MwlWait(child, interrupted)
    \/ \E readable \in BOOLEAN : MwlFinally(readable)
    \/ MwlParse

SpecCapture == CaptureInit /\ [][CaptureNext]_<<lvars, nvars, ovars, svars>>

(***************************************************************************)
(* Properties of the label state machine.                                  *)
(***************************************************************************)
\* The label-transition table of the design, row by row: the labels a
\* (command, status, channel) combination adds and removes.
TableChannels ==
    {"current", "stable", "current-testing", "security-testing",
     "templates-itl", "templates-itl-testing", "templates-community-testing",
     "iso-testing", "templates-community"}

TableRow(command, status, channel, prefix) ==
    LET fb == {prefix \o "-failed", prefix \o "-building"}
        rel == release_name
    IN  CASE command = "build" /\ status = "building" ->
                [add |-> {prefix \o "-building"}, remove |-> {prefix \o "-failed"}]
          [] command = "build" /\ status = "failed" ->
                [add |-> {prefix \o "-failed"}, remove |-> {prefix \o "-building"}]
          [] command = "build" /\ status = "built" ->
                [add |-> {}, remove |-> fb]
          [] command = "upload" /\ status = "uploaded"
                /\ channel \in {"current", "stable"} ->
                [add |-> {prefix \o "-stable", rel \o "-stable"},
                 remove |-> fb \cup {prefix \o "-cur-test", prefix \o "-sec-test"}]
          [] command = "upload" /\ status = "uploaded"
                /\ channel = "current-testing" ->
                [add |-> {prefix \o "-cur-test"}, remove |-> fb]
          [] command = "upload" /\ status = "uploaded"
                /\ channel = "security-testing" ->
                [add |-> {prefix \o "-sec-test"}, remove |-> fb]
          [] command = "upload" /\ status = "uploaded"
                /\ channel = "templates-itl" ->
                [add |-> {rel \o "-stable"}, remove |-> fb \cup {rel \o "-testing"}]
          [] command = "upload" /\ status = "uploaded"
                /\ channel \in {"templates-itl-testing",
                                 "templates-community-testing", "iso-testing"} ->
                [add |-> {rel \o "-testing"}, remove |-> fb]
          [] command = "upload" /\ status = "uploaded"
                /\ channel = "templates-community" ->
                [add |-> {rel \o "-stable"},
                 remove |-> fb \cup {rel \o "-testing", "iso"}]

InTable(command, status, channel) ==
    \/ command = "build" /\ status \in {"building", "failed", "built"}
    \/ command = "upload" /\ status = "uploaded" /\ channel \in TableChannels

\* the prefix of the table: the release for a template or ISO package, the
\* release and the distribution label otherwise
TablePrefix(package_name, dist) ==
    IF package_name \in {TemplatePkg, IsoPkg}
    THEN "r4.2"
    ELSE IF dist = HostDist THEN "r4.2-host" ELSE "r4.2-vm-bookworm"

\* C1: for every (command, status, channel) row of the label-transition
\* table get_labels returns exactly the row's add set and remove set, and
\* for an uploaded notification to a channel outside the table it returns
\* two empty lists.
C1_GetLabelsMatchesTable ==
    gl_done =>
        LET a == gl_args
            row == TableRow(a.command, a.build_status, a.repository_type,
                            TablePrefix(a.package_name, a.dist))
        IN  /\ InTable(a.command, a.build_status, a.repository_type) =>
                  /\ Elems(gl_result[1]) = row.add
                  /\ Elems(gl_result[2]) = row.remove
            /\ (a.command = "upload" /\ a.build_status = "uploaded"
                 /\ a.repository_type \notin TableChannels) =>
                  gl_result = << <<>>, <<>> >>

\* get_labels has returned the row of an upload of a component to stable
C1_Witness ==
    /\ gl_done
    /\ gl_args.command = "upload" /\ gl_args.build_status = "uploaded"
    /\ gl_args.repository_type = "stable"
    /\ gl_args.package_name = ComponentPkg /\ gl_args.dist = VmDist
    /\ Elems(gl_result[1]) = {"r4.2-vm-bookworm-stable", "r4.2-stable"}

LabelPrefixes == {"r4.2", "r4.2-host", "r4.2-vm-bookworm"}

ProgressLabels(prefix) ==
    {prefix \o "-" \o x :
        x \in {"building", "failed", "cur-test", "sec-test", "stable", "testing"}}

Contains(s, sub) ==
    \E i \in 1..(Len(s) - Len(sub) + 1) : SubSeq(s, i, i + Len(sub) - 1) = sub

Notifications == SelectSeq(trace, LAMBDA e : e.ev = "notify")
Positions(ev, name) == {i \in DOMAIN trace : trace[i].ev = ev /\ trace[i].name = name}
StageRaised ==
    \E i \in DOMAIN trace :
        /\ trace[i].ev = "stage"
        /\ trace[i].result = "raise" \/ trace[i].stage \notin {"ok", "not_called"}
NotificationRaised ==
    \E i \in DOMAIN trace :
        trace[i].ev = "notify" /\ trace[i].result \in {"escape", "timeout"}

\* the stage group of a distribution has ended and nothing in it has raised
SuccessfulStageGroup ==
    /\ IsBuild
    /\ pc = "leave"
    /\ exc = NoExc
    /\ ~StageRaised
    /\ ~NotificationRaised

\* C4: when every stage of the stage group of a distribution succeeds, its
\* notifications are exactly building, built, uploaded in this order; the
\* build stage group runs once, between building and built, the upload
\* stage once, between built and uploaded; and built carries the locator
\* of the log the build stage group returned.
C4_SuccessOrder ==
    SuccessfulStageGroup =>
        /\ Len(Notifications) = 3
        /\ Notifications[1].name = "building"
        /\ Notifications[2].name = "built"
        /\ Notifications[3].name = "uploaded"
        /\ \E b \in Positions("notify", "building"),
              sb \in Positions("stage", "stage_build"),
              t \in Positions("notify", "built"),
              su \in Positions("stage", "stage_upload"),
              u \in Positions("notify", "uploaded") :
                /\ b < sb /\ sb < t /\ t < su /\ su < u
                /\ Positions("stage", "stage_build") = {sb}
                /\ Positions("stage", "stage_upload") = {su}
                /\ trace[t].log = build_log_of(cfg.local, trace[sb].log)
                /\ trace[sb].log # None => trace[t].log # None

C4_Witness ==
    /\ SuccessfulStageGroup
    /\ cfg.cmd = "build-component"
    /\ cfg.api_key /\ ~cfg.dry_run /\ ~cfg.local
    /\ di = 2
    /\ Notifications[2].log # None
    /\ Notifications[3].result = "ok"

\* C5: when the run of a target has ended, every distribution for which a
\* build or an upload was started has exactly one terminal notification,
\* uploaded or failed.
C5_ExactlyOneTerminal ==
    pc \in {"target_done", "exit"} =>
        \A d \in DOMAIN counts :
            counts[d].started => counts[d].uploaded + counts[d].failed = 1

\* C6: when the stage function has raised an error of the build engine in
\* a stage group, a failed notification follows that carries the locator
\* of the log if one was resolved, and an additional-info block with the
\* error message and the log tail.
C6_FailedCarriesLocatorAndInfo ==
    pc = "leave" =>
        \A i \in DOMAIN trace :
            (trace[i].ev = "stage" /\ trace[i].stage = "PluginError") =>
                \E j \in DOMAIN trace :
                    /\ j > i
                    /\ trace[j].ev = "notify" /\ trace[j].name = "failed"
                    /\ trace[j].info # None
                    /\ Contains(trace[j].info, error_message("PluginError"))
                    /\ Contains(trace[j].info, "log lines:")
                    /\ trace[i].log # None => trace[j].log # None

\* C7: when the deadline has expired during the stage group of a
\* distribution, the stage group is left with AutoActionTimeout raised (so
\* that no other distribution of the target is started).
C7_DeadlineIsFatal ==
    (pc = "leave" /\ alarm = "spent") => exc.class = "AutoActionTimeout"

\* C8: when notify_build_status_on_timeout has returned, it has emitted one
\* failed notification for each distribution that had not completed and
\* none for a distribution whose uploaded notification had been emitted.
C8_TimeoutNotifiesNotCompleted ==
    (pc = "on_timeout" /\ oi > cfg.n_dists) =>
        \A d \in DOMAIN counts :
            counts[d].on_timeout = IF counts[d].completed THEN 0 ELSE 1

\* C9: in a stage group where no stage has raised and the deadline has not
\* expired, whatever the tracker does, every stage has run, the last
\* notification is uploaded, and no exception leaves the stage group.
C9_TrackerFailureNeverMasks ==
    (pc = "leave" /\ ~StageRaised /\ alarm # "spent") =>
        /\ exc = NoExc
        /\ Len(Notifications) > 0
        /\ Notifications[Len(Notifications)].name = "uploaded"
        /\ \A i \in DOMAIN trace : ~(trace[i].ev = "notify" /\ trace[i].name = "failed")

\* C10: whenever the stage function raises, make_with_log raises an
\* AutoActionError that carries a tail.
C10_RaisesWithTail ==
    mwl.func \in {"PluginError", "TimeoutError"} =>
        /\ mwl.result.kind = "raise"
        /\ mwl.result.tail # None


\* C11: in streaming mode, when the stage function has returned,
\* make_with_log returns whatever the child did (broken pipe, no output,
\* unparsable output, output on stderr): a locator, or none; and the build
\* stage group is followed by the built notification, which has a log link
\* exactly when there is a locator.
C11_TransportFaultsDoNotEscalate ==
    /\ (mwl.step # None /\ ~mwl.local /\ mwl.func = "ok") =>
          /\ mwl.result.kind = "return"
          /\ mwl.result.value = None \/ matches_log_path(mwl.result.value)
    /\ \A i \in DOMAIN trace :
          ( /\ trace[i].ev = "stage" /\ trace[i].name = "stage_build"
            /\ trace[i].stage = "ok" /\ ~cfg.local ) =>
              /\ trace[i].result = "return"
              /\ i = Len(trace) => (pc = "step" /\ CurStep = "notify_built")
              /\ i < Len(trace) =>
                    /\ trace[i + 1].ev = "notify"
                    /\ trace[i + 1].name = "built"
                    /\ (trace[i + 1].log = None) <=> (trace[i].log = None)

C11_Witness ==
    /\ mwl.step = "stage_build" /\ mwl.func = "ok"
    /\ mwl.child.pipe = "broken" /\ mwl.child.err
    /\ Len(trace) > 0
    /\ trace[Len(trace)].ev = "notify"
    /\ trace[Len(trace)].name = "built"
    /\ trace[Len(trace)].log = None
    /\ trace[Len(trace)].result = "ok"


\* C14: a CommitMismatchError raised by the upload of a target does not
\* end the run: when the run has ended, it ended after every target was
\* processed, or at a target later than every one that raised the error.
C14_MismatchDoesNotStopRun ==
    pc = "exit" =>
        /\ \A t \in mismatched : ti > t
        /\ exit_code = 0 => ti = cfg.n_targets + 1

\* the target after one that raised CommitMismatchError was uploaded
C14_Witness ==
    /\ 1 \in mismatched
    /\ ti = 2
    /\ pc = "target_done"
    /\ counts[1].uploaded = 1

\* C15: with the dry-run flag set, no stage function is called (every
\* call of make_with_log returns None at once), no notification calls the
\* notification client (so that no issue is touched and no state file is
\* written), and openQA is not triggered.
C15_DryRunHasNoEffect ==
    cfg.dry_run =>
        /\ \A i \in DOMAIN trace :
              /\ trace[i].ev = "stage" =>
                    /\ trace[i].stage = "not_called"
                    /\ trace[i].result = "raise" \/ trace[i].log = None
              /\ trace[i].ev = "notify" =>
                    trace[i].result \in {"dry", "nokey", "timeout"}
        /\ mwl.step # None => mwl.result = Returned(None)
        /\ last_fault = "none"
        /\ openqa_info = None

\* a dry run of an ISO build with an API key, all its steps done
C15_Witness ==
    /\ cfg.dry_run /\ cfg.api_key
    /\ cfg.cmd = "build-iso"
    /\ pc = "leave" /\ exc = NoExc
    /\ Len(Notifications) = 3
    /\ Notifications[3].name = "uploaded"
    /\ Notifications[3].result = "dry"
    /\ mwl.step = "stage_upload"

(***************************************************************************)
(* Properties of the log handlers.                                         *)
(***************************************************************************)
\* C12: once a write to the sink has failed with a broken pipe, the
\* wrapper is disabled, emit has not called the inner handler again, and
\* neither the failing call of emit nor a later one has raised.
C12_BrokenPipeDisablesSink ==
    sink_log.broken =>
        /\ sink.disabled
        /\ sink_log.late_calls = 0
        /\ ~sink_log.raised

\* records were logged to a wrapper that stayed a handler after it broke
C12_Witness ==
    /\ sink_log.broken
    /\ sink.attached
    /\ sink_log.late_emits >= 2

\* C13: the tail buffer never holds more than capacity entries, and holds
\* the last capacity lines inserted (all of them while they are fewer), in
\* the order of insertion.
C13_TailBufferKeepsLast ==
    /\ Len(buffer) <= capacity
    /\ buffer = IF Len(inserted) <= capacity
                THEN inserted
                ELSE SubSeq(inserted, Len(inserted) - capacity + 1, Len(inserted))

\* more lines than the capacity were inserted, the stderr line being the last
C13_Witness ==
    /\ Len(inserted) >= capacity + 2
    /\ stderr_added
    /\ buffer[Len(buffer)] = "> error"

(***************************************************************************)
(* Properties of the report issue of one target (SpecReport).              *)
(***************************************************************************)
\* the notifications that reached the issue, as <<command, status, channel>>
Building == <<"build", "building", None>>
Built == <<"build", "built", None>>
FailedBuild == <<"build", "failed", None>>
Uploaded(repository_type) == <<"upload", "uploaded", repository_type>>
FailedUpload(repository_type) == <<"upload", "failed", repository_type>>

\* the label prefix of the target the issue was notified for
TargetPrefix == prefix_label(dist_label_of(last_note.dist), package)

\* C16: building then failed, the failure carrying a tail in its additional
\* info, on a target without an issue: exactly one issue was created, its
\* only label is {prefix}-failed, and it has exactly one comment, which
\* contains the tail text.
C16_BuildingThenFailed ==
    (history = <<Building, FailedBuild>> /\ details.additional_info # None)
        => /\ n_created = 1
           /\ labels = {TargetPrefix \o "-failed"}
           /\ Len(comments) = 1
           /\ Contains(comments[1], TailText)

C16_Witness ==
    /\ history = <<Building, FailedBuild>>
    /\ details.additional_info # None
    /\ package = TemplatePkg
    /\ labels = {release_name \o "-failed"}
    /\ Len(comments) = 1

\* C17: for a component, building, built, uploaded to current-testing on a
\* target without an issue leaves exactly the label {prefix}-cur-test and
\* exactly two comments: the built one, then the uploaded-to-current-testing
\* one.
C17_ComponentToCurrentTesting ==
    (package = ComponentPkg
     /\ history = <<Building, Built, Uploaded("current-testing")>>)
        => /\ labels = {TargetPrefix \o "-cur-test"}
           /\ Len(comments) = 2
           /\ Contains(comments[1],
                       "Package for " \o dist_label_of(last_note.dist) \o " was built")
           /\ Contains(comments[2],
                       "Package for " \o dist_label_of(last_note.dist)
                           \o " was uploaded to current-testing repository")

C17_Witness ==
    /\ package = ComponentPkg
    /\ history = <<Building, Built, Uploaded("current-testing")>>
    /\ last_note.dist = VmDist
    /\ details.build_log = BuildLogUrl
    /\ labels = {"r4.2-vm-bookworm-cur-test"}
    /\ comments[2] = "Package for vm-bookworm was uploaded to current-testing repository."

\* the testing channels of templates and ISOs
TestingChannels ==
    {"templates-itl-testing", "templates-community-testing", "iso-testing"}

\* C18: for a template or an ISO on a target without an issue, the issue
\* carries exactly {release}-building after the building notification, and
\* after building, built, uploaded to a testing channel it carries exactly
\* {release}-testing and exactly two comments, the built one then the
\* uploaded one.
C18_TemplateIsoToTesting ==
    package \in {TemplatePkg, IsoPkg}
        => /\ history = <<Building>> => labels = {release_name \o "-building"}
           /\ \A channel \in TestingChannels :
                 history = <<Building, Built, Uploaded(channel)>>
                    => /\ labels = {release_name \o "-testing"}
                       /\ Len(comments) = 2
                       /\ Contains(comments[1], " was built")
                       /\ Contains(comments[2], " was uploaded to ")

C18_Witness ==
    /\ package = IsoPkg
    /\ history = <<Building, Built, Uploaded("iso-testing")>>
    /\ details.repository_url = IsoUrl
    /\ labels = {"r4.2-testing"}
    /\ Len(comments) = 2

C18_WitnessTemplate ==
    /\ package = TemplatePkg
    /\ history = <<Building, Built, Uploaded("templates-community-testing")>>
    /\ labels = {"r4.2-testing"}

\* C19: an uploaded notification to the channel current is treated as one
\* to stable: it removes {prefix}-cur-test and {prefix}-sec-test (with
\* {prefix}-failed and {prefix}-building), adds {prefix}-stable and
\* {release}-stable, and its comment names the stable repository.
C19_CurrentIsStable ==
    (n_notes > 0 /\ history # <<>>
     /\ history[Len(history)] = Uploaded("current")
     /\ last_note.repository_type = "current")
        => /\ labels =
                (prev_labels \ {TargetPrefix \o "-cur-test", TargetPrefix \o "-sec-test",
                                TargetPrefix \o "-failed", TargetPrefix \o "-building"})
                    \cup {TargetPrefix \o "-stable", release_name \o "-stable"}
           /\ last_delta = get_labels("upload", "stable", "uploaded",
                                      dist_label_of(last_note.dist), package)
           /\ Len(comments) > 0
           /\ Contains(comments[Len(comments)], " was uploaded to stable repository")

C19_Witness ==
    /\ history = <<Built, Uploaded("current-testing"), Uploaded("current")>>
    /\ last_note.dist = HostDist
    /\ prev_labels = {"r4.2-host-cur-test"}
    /\ labels = {"r4.2-host-stable", "r4.2-stable"}
    /\ comments[Len(comments)] = "Package for host was uploaded to stable repository."

\* the channels of the final uploads
StableChannels == {"current", "templates-itl", "templates-community", "iso"}

\* the notifications of the history that carry a comment
Commented == SelectSeq(history, LAMBDA note : note[2] # "building")

\* C20: a failed notification of an upload changes no label of the issue and
\* adds one comment reporting the failed upload; after uploaded to a testing
\* channel followed by a failed upload to the stable channel the labels are
\* those the testing upload left.
C20_FailedUploadKeepsLabels ==
    /\ (history # <<>> /\ history[Len(history)][1] = "upload"
            /\ history[Len(history)][2] = "failed")
          => /\ labels = prev_labels
             /\ last_delta = << <<>>, <<>> >>
             /\ Len(comments) = Len(Commented)
             /\ Contains(comments[Len(comments)], " failed to upload to ")
    /\ \A testing \in channels_of(package) \ StableChannels,
          stable \in channels_of(package) \cap StableChannels :
          history = <<Uploaded(testing), FailedUpload(stable)>>
            => /\ labels = Elems(get_labels("upload", testing, "uploaded",
                                            dist_label_of(last_note.dist), package)[1])
               /\ Len(comments) = 2
               /\ Contains(comments[1], " was uploaded to ")

C20_Witness ==
    /\ package = TemplatePkg
    /\ history = <<Built, Uploaded("templates-community-testing"),
                   FailedUpload("templates-community")>>
    /\ labels = {"r4.2-testing"}
    /\ prev_labels = {"r4.2-testing"}
    /\ comments[3] = "Template debian-12-4.2.0-202501010000 failed to upload to "
                        \o "templates-community repository ([build log]("
                        \o BuildLogUrl \o "))."

\* C21: for a template whose issue carries {release}-testing after an upload
\* to its testing channel, a later uploaded notification to the stable
\* channel (templates-itl or templates-community) leaves exactly
\* {release}-stable on the issue.
C21_TemplatePromotion ==
    \A stable \in {"templates-itl", "templates-community"} :
        (package = TemplatePkg /\ Len(history) >= 2
         /\ history[Len(history)] = Uploaded(stable)
         /\ history[Len(history) - 1] \in
                {Uploaded("templates-itl-testing"),
                 Uploaded("templates-community-testing")}
         /\ prev_labels = {release_name \o "-testing"})
            => labels = {release_name \o "-stable"}

C21_Witness ==
    /\ package = TemplatePkg
    /\ history = <<Built, Uploaded("templates-itl-testing"), Uploaded("templates-itl")>>
    /\ prev_labels = {"r4.2-testing"}
    /\ labels = {"r4.2-stable"}

(***************************************************************************)
(* Properties of an issue shared by several distributions (SpecShared).    *)
(***************************************************************************)
\* the labels of a set that belong to a distribution
LabelsOfDist(set, dist) ==
    {l \in set : startswith(l, release_name \o "-" \o dist_label_of(dist) \o "-")}

\* C22: for a component whose distributions share one issue, a notification
\* for a distribution adds or removes only labels with the prefix
\* {release}-{dist_label} of that distribution (plus {release}-stable on a
\* promotion to stable) and leaves the labels of every other distribution
\* as they were; once every distribution went through building, built,
\* uploaded to current-testing, the labels are exactly the
\* {release}-{dist_label}-cur-test of the distributions.
C22_DistributionsShareOneIssue ==
    /\ n_notes > 0 =>
          /\ \A l \in (labels \ prev_labels) \cup (prev_labels \ labels) :
                \/ l \in LabelsOfDist({l}, last_note.dist)
                \/ /\ l = release_name \o "-stable"
                   /\ last_note.build_status = "uploaded"
                   /\ last_note.repository_type \in {"current", "stable"}
          /\ \A other \in Distributions \ {last_note.dist} :
                LabelsOfDist(labels, other) = LabelsOfDist(prev_labels, other)
    /\ (\A dist \in Distributions : progress[dist] = Len(BuildScript))
          => labels = {release_name \o "-" \o dist_label_of(dist) \o "-cur-test" :
                          dist \in Distributions}

C22_Witness ==
    /\ \A dist \in Distributions : progress[dist] = Len(BuildScript)
    /\ labels = {"r4.2-host-cur-test", "r4.2-vm-bookworm-cur-test"}
    /\ prev_labels = {"r4.2-host-cur-test"}

(***************************************************************************)
(* Properties of the state files (SpecStore).                              *)
(***************************************************************************)
\* a step that is a call of run()
IsNote == n_notes' = n_notes + 1

\* the call of the step is an uploaded notification of an upload
IsUploaded == last_note'.command = "upload" /\ last_note'.build_status = "uploaded"

\* C23: when the state file does not exist at an uploaded notification of an
\* upload, no pass over the closed issues is made (no referenced issue is
\* commented on or relabelled) and the state file then holds the current
\* commit.
C23_MissingStateFile ==
    [][ (IsNote /\ IsUploaded
         /\ ~state_file_exists(state_store, last_note'.state_file))
            => /\ ~last_note'.closed_pass
               /\ last_note'.closed = {}
               /\ <<last_note'.state_file, head>> \in state_store' ]_vars

C23_Witness ==
    /\ n_notes = 1
    /\ last_note.build_status = "uploaded"
    /\ last_note.repository_type = "current-testing"
    /\ head = Commits[2]
    /\ state_store = {<<last_note.state_file, Commits[2]>>}
    /\ last_note.closed = {}

\* C24: the pass over the closed issues runs only in an uploaded
\* notification of an upload whose channel is stable (current included) or
\* current-testing, and only when the state file already held a commit; in
\* every other call no referenced issue is commented on or relabelled.
C24_ClosedPassOnlyAfterBaseline ==
    [][ (IsNote /\ (last_note'.closed_pass \/ last_note'.closed # {}))
            => /\ IsUploaded
               /\ last_note'.repository_type \in {"current", "stable", "current-testing"}
               /\ state_file_exists(state_store, last_note'.state_file) ]_vars

C24_Witness ==
    /\ last_note.closed_pass
    /\ last_note.closed = {ClosedIssue, OtherIssue}
    /\ last_note.repository_type = "current"
    /\ <<last_note.state_file, Commits[2]>> \in state_store

\* C25: a state file changes only in an uploaded notification of an upload
\* to a channel of the label table: no build notification, no failed
\* notification and no upload to a channel the table does not know changes
\* a state file.
C25_StateFileOnlyForTrackedChannel ==
    [][ state_store' # state_store
            => /\ IsNote /\ IsUploaded
               /\ last_note'.repository_type \in TableChannels ]_vars

\* C26: two notifications that differ in the distribution or in the channel
\* never use the same state file.
C26_OneStateFilePerKey ==
    [][ (IsNote /\ IsUploaded /\ last_note.state_file # None
         /\ <<last_note.dist, last_note.repository_type>>
                # <<last_note'.dist, last_note'.repository_type>>)
            => last_note'.state_file # last_note.state_file ]_vars

\* s.endswith(suffix)
EndsWith(s, suffix) ==
    Len(s) >= Len(suffix) /\ SubSeq(s, Len(s) - Len(suffix) + 1, Len(s)) = suffix

\* C27: a building notification posts no comment and each built, uploaded
\* or failed notification that reaches the issue posts exactly one; the
\* additional info is appended in parentheses to a built or uploaded comment
\* and as a paragraph of its own to a failed comment.
C27_OneCommentPerReport ==
    /\ Len(comments) = Len(Commented)
    /\ \A i \in 1..Len(Commented) :
          i <= Len(comments) =>
            IF details.additional_info = None
            THEN /\ EndsWith(comments[i], ".")
                 /\ ~Contains(comments[i], "\n")
            ELSE IF Commented[i][2] = "failed"
            THEN EndsWith(comments[i], ":\n\n" \o details.additional_info)
            ELSE EndsWith(comments[i], " (" \o details.additional_info \o ").")

C27_Witness ==
    /\ history = <<Building, Built, FailedBuild>>
    /\ details.additional_info # None
    /\ details.build_log # None
    /\ Len(comments) = 2
    /\ EndsWith(comments[1], ").")
    /\ EndsWith(comments[2], "</details>")

(***************************************************************************)
(* Properties of the tracker under faults (SpecNotify).                    *)
(***************************************************************************)
\* C28: over any sequence of notifications an issue is created only when the
\* tracker has no open issue with the title and is reused otherwise, so the
\* tracker never holds two open issues with one title.
C28_NoDuplicateIssue ==
    /\ n_created <= 1
    /\ issue_open <=> n_created = 1

C28_Witness ==
    /\ n_notes >= 3
    /\ n_created = 1
    /\ last_note.applied
    /\ prev_labels # {}
    /\ labels # prev_labels

(***************************************************************************)
(* Properties of a report the tracker partly refuses (SpecComment).        *)
(***************************************************************************)
\* C29: inside one report a tracker error on the comment or on a label
\* removal or addition does not abort the run: every other label operation
\* of the report is still made and the call returns normally.
C29_PartialFailureDoesNotAbort ==
    (n_notes > 0 /\ last_note.applied)
        => /\ last_note.outcome = "ok"
           /\ \A l \in Elems(last_delta[2]) \ last_note.failed_ops :
                 l \notin labels \/ l \in Elems(last_delta[1])
           /\ \A l \in Elems(last_delta[1]) \ last_note.failed_ops : l \in labels
           /\ \A l \in prev_labels \ Elems(last_delta[2]) : l \in labels

C29_Witness ==
    /\ last_note.comment_failed
    /\ last_note.build_status = "uploaded"
    /\ last_note.repository_type = "current"
    /\ last_note.failed_ops = {"r4.2-host-cur-test"}
    /\ prev_labels = {"r4.2-host-cur-test", "r4.2-host-building"}
    /\ labels = {"r4.2-host-cur-test", "r4.2-host-stable", "r4.2-stable"}
    /\ last_note.outcome = "ok"

(***************************************************************************)
(* Properties of get_package_changes (SpecChangelog).                      *)
(***************************************************************************)
\* the head of the history is tagged v1.1, an earlier commit is tagged v1.0
\* and no commit message references an issue
TaggedHistory ==
    LET log == gpc_args.log
    IN  /\ Len(log) >= 2
        /\ log[Len(log)].tag = "v1.1"
        /\ \E j \in 1..(Len(log) - 1) : log[j].tag = "v1.0"
        /\ \A j \in 1..Len(log) : log[j].issues = {}

\* the position of the commit tagged v1.0
TaggedV10 == CHOOSE j \in 1..Len(gpc_args.log) : gpc_args.log[j].tag = "v1.0"

\* version v1.1, previous version v1.0, the commits after v1.0 up to v1.1 in
\* the short log and no referenced issue
ChangesSinceV10 ==
    LET n == Len(gpc_args.log)
    IN  /\ gpc_result.version = "v1.1"
        /\ gpc_result.previous_version = "v1.0"
        /\ gpc_result.shortlog # <<>>
        /\ gpc_result.shortlog =
              [k \in 1..(n - TaggedV10) |-> commit_id(n - k + 1)]
        /\ gpc_result.referenced_issues = {}

\* C30: for a history whose head is tagged v1.1, with an earlier tag v1.0 and
\* no commit message referencing an issue, get_package_changes returns
\* version v1.1, previous version v1.0, a non-empty short log of exactly the
\* commits after v1.0 up to v1.1 and no referenced issue.
C30_ChangesOfTaggedHistory ==
    (gpc_done /\ TaggedHistory) => ChangesSinceV10

\* C30 amended: the same, when get_package_changes is called without a
\* previous commit or with the commit tagged v1.0 as the previous one.
C30_ChangesWithoutPreviousCommit ==
    (gpc_done /\ TaggedHistory
     /\ gpc_args.previous_current_commit \in {None, commit_id(TaggedV10)})
        => ChangesSinceV10

C30_Witness ==
    /\ gpc_done
    /\ TaggedHistory
    /\ Len(gpc_args.log) = 3
    /\ gpc_args.log[1].tag = "v1.0"
    /\ gpc_args.previous_current_commit = None
    /\ gpc_result.previous_version = "v1.0"
    /\ gpc_result.shortlog = <<"c3", "c2">>

(***************************************************************************)
(* Claims about the guards before the stage groups (Spec).                 *)
(***************************************************************************)
\* the requested timestamp of a template build is not newer than the one
\* recorded in the artifact file
NotNewer ==
    /\ cfg.cmd = "build-template"
    /\ \/ cfg.template_timestamp = cfg.timestamp_file
       \/ /\ cfg.template_timestamp = "202501010000"
          /\ cfg.timestamp_file = "202501020000"

\* C31: a template build whose requested timestamp is less than or equal
\* to the recorded build timestamp short-circuits the whole run: no stage
\* group is entered, no stage is executed, no notification is emitted, and
\* the run does not end in error.
C31_NewerAlreadyBuilt ==
    NotNewer =>
        /\ pc \in {"main", "timestamp_guard", "target_done", "exit"}
        /\ trace = <<>>
        /\ mwl = NoCall
        /\ counts = [d \in 1..cfg.n_dists |-> NoCounts]
        /\ alarm = "off"
        /\ pc = "exit" => exit_code = 0

\* a build of the recorded timestamp itself has returned from build()
C31_Witness ==
    /\ NotNewer
    /\ cfg.template_timestamp = cfg.timestamp_file
    /\ ~cfg.dry_run /\ cfg.api_key
    /\ pc = "exit" /\ exit_code = 0

(***************************************************************************)
(* Claims about the errors of a stage group (Spec).                        *)
(***************************************************************************)
\* a stage of the current stage group has raised and the deadline has not
\* expired
StageGroupFailed ==
    /\ alarm # "spent"
    /\ \E k \in DOMAIN trace :
          trace[k].ev = "stage" /\ trace[k].result = "raise"

FailedNotified ==
    \E k \in DOMAIN trace : trace[k].ev = "notify" /\ trace[k].name = "failed"

\* C32: a non-timeout error during the stage group of one distribution
\* yields a failed notification for that distribution, and the orchestrator
\* then proceeds to the next distribution: at the end of the with block a
\* failed notification has been emitted, the counter of the distribution
\* shows it, and no exception is propagating.
C32_FailureIsReportedAndLoopGoesOn ==
    (pc = "leave" /\ StageGroupFailed) =>
        /\ FailedNotified
        /\ counts[di].failed = 1
        /\ exc = NoExc

\* C33: a pipeline failure in any step of the stage sequence of a target,
\* the initial fetch stage included, leads to the failed state: once the
\* failing step is left (the with block ends, or the exception has reached
\* main()), a failed notification has been emitted for the target.
C33_FailureInAnyStepIsReported ==
    (pc \in {"leave", "raised", "exit"} /\ StageGroupFailed) => FailedNotified

\* the commit or version an upload references differs from the recorded
\* one, and the guard of upload() has been evaluated
UploadMismatch ==
    \/ cfg.cmd = "upload-component" /\ ti \in mismatched
    \/ /\ cfg.cmd = "upload-template"
       /\ pc \notin {"main", "artifact_check"}
       /\ cfg.timestamp_file \in Timestamps
       /\ cfg.commit_sha # "4.2.0-" \o cfg.timestamp_file

\* C34: an upload of a component or of a template that references another
\* commit or version than the recorded one is skipped: no stage runs, no
\* notification is emitted, the exception is one main() catches, and the
\* run does not end in error.
C34_MismatchedUploadIsSkipped ==
    UploadMismatch =>
        /\ trace = <<>>
        /\ mwl = NoCall
        /\ counts = [d \in 1..cfg.n_dists |-> NoCounts]
        /\ pc = "raised" => main_handler_for(exc.class) = "warning"
        /\ pc = "exit" => exit_code = 0

(***************************************************************************)
(* Claims about the handlers of make_with_log (SpecCapture).               *)
(***************************************************************************)
\* the positions of handler_log where this change of this handler is
ChangesOf(op, h) ==
    {k \in DOMAIN handler_log : handler_log[k] = <<op, h>>}

\* the streaming sink is removed at most once, only after it was added, and
\* is not added again
StreamingSinkDetachedOnce ==
    /\ Cardinality(ChangesOf("add", "qrexec")) <= 1
    /\ Cardinality(ChangesOf("remove", "qrexec")) <= 1
    /\ \A r \in ChangesOf("remove", "qrexec") :
          \A a \in ChangesOf("add", "qrexec") : a < r

\* the local backend has left make_with_log before its try block
RaisedBeforeTry == capture.local /\ capture.pending # None

FirstPath(lines) ==
    LET hits == {k \in DOMAIN lines : lines[k].path}
    IN  IF hits = {} THEN None
        ELSE lines[CHOOSE k \in hits : \A m \in hits : k <= m].line

\* C36: get_log_file_from_qubesbuilder_buildlog returns the first
\* non-empty, stripped line of the output of the child that is a log
\* path, and None when the output is empty or no line is one.
C36_FirstMatchingLine ==
    (text_done /\ text_args.fn = "parse") =>
        text_result = FirstPath(text_args.lines)

\* a refusal followed by an indented log path: the path is returned
\* without its white space
C36_Witness ==
    /\ text_done /\ text_args.fn = "parse"
    /\ Len(text_args.lines) = 2
    /\ text_args.lines[1].raw = "Request refused"
    /\ text_args.lines[2].raw = "  vm2/log_b\t"
    /\ text_result = "vm2/log_b"

\* the additional info made of a stripped base message and of the text
\* shown in the tail block (with_tail: there is a tail block)
InfoOf(base_txt, with_tail, shown) ==
    LET block == "**Log tail (last ~30 lines):**\n<details>\n\n" \o shown
                     \o "\n</details>"
        head_par == "**Additional info:** " \o base_txt
    IN  CASE base_txt = "" /\ ~with_tail -> None
          [] base_txt = "" /\ with_tail -> block
          [] base_txt # "" /\ ~with_tail -> head_par
          [] OTHER -> head_par \o "\n\n" \o block

\* the last n characters of t behind the marker when t is longer than n
\* (and n is a limit), t otherwise
WithinLimit(t, n) ==
    IF n > 0 /\ Len(t) > n
    THEN "...\n" \o SubSeq(t, Len(t) - n + 1, Len(t))
    ELSE t

\* C37: format_additional_info includes at most max_tail_chars (3500 by
\* default) characters of the tail, its last ones behind the marker when
\* it was longer, the tail unchanged when it is not longer than the limit,
\* and returns None when base message and tail are both empty.
C37_TailAsGiven ==
    /\ max_tail_chars = 3500
    /\ (text_done /\ text_args.fn = "format" /\ text_args.max_chars > 0) =>
          LET raw == IF text_args.tail.given THEN tail_of(text_args.tail)
                     ELSE ""
          IN  text_result = InfoOf(text_args.base.txt, raw # "",
                                   WithinLimit(raw, text_args.max_chars))

\* C37 as the code has it: newlines at the ends of the tail are removed
\* first; what is left is included unchanged when it is not longer than
\* max_tail_chars (3500 by default; 0 is no limit), else its last
\* max_tail_chars characters behind the marker; None is returned when the
\* base message is blank and there is no tail.
C37_TailStrippedThenCut ==
    /\ max_tail_chars = 3500
    /\ (text_done /\ text_args.fn = "format") =>
          LET raw == IF text_args.tail.given THEN tail_of(text_args.tail)
                     ELSE ""
          IN  text_result = InfoOf(text_args.base.txt, raw # "",
                                   WithinLimit(text_args.tail.body,
                                               text_args.max_chars))

\* a tail of five characters and a newline under a limit of three
C37_Witness ==
    /\ text_done /\ text_args.fn = "format"
    /\ text_args.max_chars = 3
    /\ text_args.tail.body = "abcde" /\ text_args.tail.post = "\n"
    /\ text_args.tail.pre = ""
    /\ text_args.base.txt = "Auto Build failed"
    /\ text_result = "**Additional info:** Auto Build failed\n\n"
            \o "**Log tail (last ~30 lines):**\n<details>\n\n...\ncde\n</details>"

(***************************************************************************)
(* Claims about the success notifications of a stage group (Spec).         *)
(***************************************************************************)
\* C38: built and uploaded are emitted only after stage groups that
\* returned without error: no stage function of the stage group has
\* raised before a built or uploaded notification, whatever the backend.
C38_NoSuccessAfterStageError ==
    \A k \in DOMAIN trace :
        (trace[k].ev = "notify" /\ trace[k].name \in {"built", "uploaded"}) =>
            \A j \in 1..(k - 1) :
                trace[j].ev = "stage" =>
                    trace[j].stage \notin (FuncOutcomes \ {"ok"})

(***************************************************************************)
(* Claims about the commits read from the state files (SpecStore).         *)
(***************************************************************************)
\* what a state file holds (None: no such file)
Held(store, file) ==
    IF \E entry \in store : entry[1] = file
    THEN (CHOOSE entry \in store : entry[1] = file)[2]
    ELSE None

\* C39: in an uploaded notification of a component to channel current, the
\* previous stable commit handed to get_package_changes is the commit the
\* stable state file held before the call, not the one the call writes.
C39_PreviousStableCommitIsTheOldOne ==
    [][ (/\ IsNote /\ IsUploaded
         /\ package = ComponentPkg
         /\ last_note'.repository_type = "current"
         /\ last_note'.wrote)
            => last_note'.previous_stable_commit
                  = Held(state_store, stable_state_file_of(package, last_note'.dist))
      ]_vars

\* C40: across the uploaded notifications of one distribution to one
\* channel, tracker calls failing part-way included, an issue named by a
\* fixes/closes trailer gets the closing comment of a commit at most once.
C40_ClosingCommentAtMostOnce ==
    \A key \in DOMAIN closing : closing[key] <= 1


====
